---- MODULE Spec2Model ----
(***************************************************************************)
(* Version-diff engine of version-compare-tool2.                           *)
(*                                                                         *)
(*   - the page-count probe and the page fetch of GitLabManager and        *)
(*     OptimizedGitLabManager (src/src/gitlab);                            *)
(*   - the classifier of TaskLossDetector._analyze_version_tasks and of    *)
(*     OptimizedTaskLossDetector._analyze_version_tasks (src/src/core);    *)
(*   - the task index built from commit messages, the comparison of two    *)
(*     refs whose source may fail, and RequestCacheManager.                *)
(*                                                                         *)
(* SpecFetch runs one fetch of one ref against a source that always        *)
(* answers, SpecClassify runs the classifier on two task indexes,          *)
(* SpecBuild builds the task index of a commit list, SpecCompare runs one  *)
(* comparison of two refs against a source that may fail, SpecCache drives *)
(* one RequestCacheManager from one caller, and SpecBranches runs          *)
(* comparisons on one OptimizedGitLabManager with its two fetch threads.   *)
(***************************************************************************)
EXTENDS Integers, Sequences, FiniteSets, TLC

VARIABLES
    manager,            \* which manager class serves the fetch
    total_commits,      \* N: the commits the source holds for the ref
    per_page,           \* config['per_page']
    pc,                 \* position inside the fetch of the ref
    left,               \* binary search window, lower end
    right,              \* binary search window, upper end
    last_valid_page,    \* highest page the search saw non-empty
    total_pages,        \* the probe's answer
    all_commits,        \* the list the fetch returns
    successful_pages,   \* pages merged into all_commits
    failed_pages,       \* pages the merge counted as failed
    old_commit_task_map,    \* TaskIndex of the old ref: key -> task id
    new_commit_task_map,    \* TaskIndex of the new ref: key -> task id
    detector,           \* the detector class that answered last, or "none"
    result,             \* what _analyze_version_tasks returned, or NoResult
    input_commits,      \* the commit list handed to the index builder
    commit_task_map,    \* what the index builder returned last, or NotBuilt
    previous_map,       \* what the index builder returned the time before
    build_pc,           \* position of the index builder's caller
    source,             \* per ref: what the commit source holds and answers
    fetched,            \* per ref: what the fetch of the ref returned
    operation,          \* the exposed operation that runs the comparison
    payload,            \* what the exposed operation returned, or NoPayload
    cache,              \* RequestCacheManager.cache
    stats,              \* RequestCacheManager.stats
    call,               \* the last call made on the cache by its one caller
    returned,           \* what that call returned
    written,            \* per key: the value last set since the last clear
    gets,               \* get() calls since construction or the last clear
    thread,             \* per fetch thread: position and locals
    comparison,         \* ordinal of the comparison in progress
    ref_source,         \* what the commit source of the fetched ref answers
    request,            \* the probe requests in flight
    futures,            \* the futures of the page fetches, as submitted
    probes              \* the candidate pages the probe requested, in order

fetchVars == <<manager, total_commits, per_page, pc, left, right,
               last_valid_page, total_pages, all_commits,
               successful_pages, failed_pages>>
classVars == <<old_commit_task_map, new_commit_task_map, detector, result>>
vars == <<manager, total_commits, per_page, pc, left, right,
          last_valid_page, total_pages, all_commits,
          successful_pages, failed_pages, old_commit_task_map,
          new_commit_task_map, detector, result, input_commits, commit_task_map,
          previous_map, build_pc, source, fetched, operation, payload,
          cache, stats, call, returned, written, gets, thread, comparison,
          ref_source, request, futures, probes>>
buildVars == <<input_commits, commit_task_map, previous_map, build_pc>>
compareVars == <<source, fetched, operation, payload>>
cacheVars == <<cache, stats, call, returned, written, gets>>
branchVars == <<thread, comparison>>
poolVars == <<ref_source, request, futures, probes>>

(***************************************************************************)
(* Bounds of the model.                                                    *)
(***************************************************************************)
MaxPerPage == 2
MaxOverflow == 2
NumTasks == 2
MaxLines == 2

(***************************************************************************)
(* Program constants.                                                      *)
(***************************************************************************)
detect_upper == 500
find_last_page_upper == 1000
tag_per_page == 100
branch_per_page == 200
retry_attempts == 3

\* "if page > 1000" of get_all_tag_commits
incremental_upper == 1000

Managers == {"GitLabManager", "OptimizedGitLabManager"}

Min(a, b) == IF a <= b THEN a ELSE b
Max(a, b) == IF a >= b THEN a ELSE b
Ceil(n, p) == (n + p - 1) \div p

\* right of "left, right = 1, 500" and of "left, right = 1, 1000"
SearchUpper(m) == IF m = "GitLabManager" THEN detect_upper ELSE find_last_page_upper

\* self.config['per_page'] of each manager
ConfigPerPage(m) == IF m = "GitLabManager" THEN tag_per_page ELSE branch_per_page

PageSizes(m) == (1 .. MaxPerPage) \cup {ConfigPerPage(m)}
CommitCounts == 0 .. (find_last_page_upper + MaxOverflow)

(***************************************************************************)
(* The commit source. A source src holds src.n commits for the ref: commit *)
(* i of the ref is the number i, and page k of size p holds the commits    *)
(* (k-1)*p+1 .. min(k*p, n). A request for a faulty page (every page when  *)
(* src.whole, the pages of src.pages otherwise) is answered by the status  *)
(* src.status, or raises when src.status is Raises, on the first src.fails *)
(* attempts of a page fetch; every other request is answered 200 with the  *)
(* page. The last commit of a source with null_message is a record whose   *)
(* "message" is null; it is the number 0 in a page.                        *)
(***************************************************************************)
PageCount(n, p, page) == Max(0, Min(p, n - (page - 1) * p))

\* the status of a request that got no response: requests raised (timeout,
\* refused connection)
Raises == 0

\* a source that answers every request
HealthySource(n) ==
    [n |-> n, status |-> 200, whole |-> FALSE, pages |-> {}, fails |-> 0,
     null_message |-> FALSE]

FaultyPage(src, page) == src.whole \/ page \in src.pages

ListCommits(src, p, page, attempt) ==
    IF FaultyPage(src, page) /\ attempt < src.fails
    THEN [raised |-> src.status = Raises, status_code |-> src.status,
          json |-> << >>]
    ELSE [raised |-> FALSE, status_code |-> 200,
          json |-> [i \in 1 .. PageCount(src.n, p, page) |->
                       IF src.null_message /\ (page - 1) * p + i = src.n THEN 0
                       ELSE (page - 1) * p + i]]

\* _fetch_single_page: up to retry_attempts requests, [] on 404 or when
\* the attempts are used up; requests counts the requests sent
RECURSIVE FetchAttempt(_, _, _, _)
FetchAttempt(src, p, page, attempt) ==
    IF attempt >= retry_attempts THEN [commits |-> << >>, requests |-> attempt]
    ELSE LET response == ListCommits(src, p, page, attempt) IN
         IF response.raised
         THEN IF attempt = retry_attempts - 1
              THEN [commits |-> << >>, requests |-> attempt + 1]
              ELSE FetchAttempt(src, p, page, attempt + 1)
         ELSE IF response.status_code = 200
         THEN [commits |-> response.json, requests |-> attempt + 1]
         ELSE IF response.status_code = 404
         THEN [commits |-> << >>, requests |-> attempt + 1]
         ELSE IF attempt = retry_attempts - 1
         THEN [commits |-> << >>, requests |-> attempt + 1]
         ELSE FetchAttempt(src, p, page, attempt + 1)

FetchSinglePage(src, p, page) == FetchAttempt(src, p, page, 0).commits

(***************************************************************************)
(* The page-count probe: GitLabManager._detect_total_pages, and            *)
(* OptimizedGitLabManager._get_commits_page_info with _find_last_page.     *)
(***************************************************************************)

\* the page a probe request sees: _fetch_single_page in GitLabManager, a
\* bare requests.get in OptimizedGitLabManager (anything but 200 counts as
\* a page without data)
ProbePage(m, src, p, page) ==
    IF m = "GitLabManager" THEN FetchSinglePage(src, p, page)
    ELSE LET response == ListCommits(src, p, page, 0) IN
         IF ~response.raised /\ response.status_code = 200
         THEN response.json ELSE << >>

\* the decision taken on page 1: 0 pages, 1 page, or binary search
FirstPageVerdict(first_page, p) ==
    IF first_page = << >> THEN "zero"
    ELSE IF Len(first_page) < p THEN "one"
    ELSE "search"

MidPage(l, r) == (l + r) \div 2

\* one iteration of "while left <= right"
SearchStepOffByOne(l, r, lv, mid, page_data, p) ==
    IF page_data # << >>
    THEN [left |-> mid + 1, right |-> r,
          last_valid_page |-> IF Len(page_data) = p THEN mid + 1 ELSE mid]
    ELSE [left |-> l, right |-> mid - 1, last_valid_page |-> lv]

SearchStepKeepsFirst(l, r, lv, mid, page_data, p) ==
    IF page_data # << >>
    THEN [left |-> mid + 1, right |-> r, last_valid_page |-> lv]
    ELSE [left |-> l, right |-> mid - 1, last_valid_page |-> lv]

SearchStepKeepsWindow(l, r, lv, mid, page_data, p) ==
    IF page_data # << >>
    THEN [left |-> mid + 1, right |-> r, last_valid_page |-> mid]
    ELSE [left |-> l, right |-> r, last_valid_page |-> lv]

SearchStepCountsEmpty(l, r, lv, mid, page_data, p) ==
    IF page_data # << >>
    THEN [left |-> mid + 1, right |-> r, last_valid_page |-> mid]
    ELSE [left |-> l, right |-> mid - 1, last_valid_page |-> mid]

SearchStep(l, r, lv, mid, page_data, p) ==
    IF page_data # << >>
    THEN [left |-> mid + 1, right |-> r, last_valid_page |-> mid]
    ELSE [left |-> l, right |-> mid - 1, last_valid_page |-> lv]

(***************************************************************************)
(* GitLabManager._fetch_all_pages_concurrent. Every page 1..total_pages is *)
(* submitted to the pool; the results are merged by the calling thread in  *)
(* the order of submission, so the returned list is the pages in page      *)
(* order whatever the order in which the workers finish.                   *)
(***************************************************************************)
LastSubmittedShort(total) == total - 1

LastSubmittedAtLeastOne(total) == IF total < 1 THEN 1 ELSE total

\* range(1, total_pages + 1)
LastSubmitted(total) == total

\* the body of "for page_num, future in futures": one page's share of the
\* merge
CollectOne(commits) ==
    IF commits # << >>
    THEN [all_commits |-> commits, successful_pages |-> 1, failed_pages |-> 0]
    ELSE [all_commits |-> << >>, successful_pages |-> 0, failed_pages |-> 1]

\* the merge loop over the pages first..last, in page order. The loop runs
\* page by page; it is evaluated here by halving the range, which gives the
\* same list and the same counts because appending is associative.
RECURSIVE CollectPages(_, _, _, _)
CollectPages(src, p, first, last) ==
    IF first > last
    THEN [all_commits |-> << >>, successful_pages |-> 0, failed_pages |-> 0]
    ELSE IF first = last THEN CollectOne(FetchSinglePage(src, p, first))
    ELSE LET half == (first + last) \div 2
             lo == CollectPages(src, p, first, half)
             hi == CollectPages(src, p, half + 1, last) IN
         [all_commits |-> lo.all_commits \o hi.all_commits,
          successful_pages |-> lo.successful_pages + hi.successful_pages,
          failed_pages |-> lo.failed_pages + hi.failed_pages]

FetchAllPages(src, p, total) == CollectPages(src, p, 1, LastSubmitted(total))

(***************************************************************************)
(* The classifier's state, idle while a fetch runs.                        *)
(***************************************************************************)
NoResult == [analysis |-> "none"]
EmptyIndex == << >>

ClassIdle ==
    /\ old_commit_task_map = EmptyIndex
    /\ new_commit_task_map = EmptyIndex
    /\ detector = "none"
    /\ result = NoResult

(***************************************************************************)
(* The index builder, the comparison and the cache while they are not in   *)
(* use.                                                                    *)
(***************************************************************************)
None == [none |-> TRUE]
NotBuilt == "NotBuilt"
NotFetched == [status |-> "not fetched"]
NoPayload == [status |-> "none"]
Refs == {"old", "new"}
EmptyCache == << >>
ZeroStats == [hits |-> 0, misses |-> 0, api_calls_saved |-> 0]

BuildIdle ==
    /\ input_commits = << >>
    /\ commit_task_map = NotBuilt
    /\ previous_map = NotBuilt
    /\ build_pc = "idle"

CompareIdle ==
    /\ source = [r \in Refs |-> HealthySource(0)]
    /\ fetched = [r \in Refs |-> NotFetched]
    /\ operation = "none"
    /\ payload = NoPayload

CacheIdle ==
    /\ cache = EmptyCache
    /\ stats = ZeroStats
    /\ call = [op |-> "none"]
    /\ returned = None
    /\ written = EmptyCache
    /\ gets = 0

BranchIdle ==
    /\ thread = [r \in Refs |-> [pc |-> "idle"]]
    /\ comparison = 0

PoolIdle ==
    /\ ref_source = HealthySource(0)
    /\ request = {}
    /\ futures = << >>
    /\ probes = << >>

(***************************************************************************)
(* One fetch of one ref.                                                   *)
(***************************************************************************)
InitFetch ==
    /\ manager \in Managers
    /\ total_commits \in CommitCounts
    /\ per_page \in PageSizes(manager)
    /\ pc = "start"
    /\ left = 0
    /\ right = 0
    /\ last_valid_page = 0
    /\ total_pages = 0
    /\ all_commits = << >>
    /\ successful_pages = 0
    /\ failed_pages = 0
    /\ ClassIdle
    /\ BuildIdle
    /\ CompareIdle
    /\ CacheIdle
    /\ BranchIdle
    /\ PoolIdle

\* page 1 is fetched and decides between 0 pages, 1 page and the search
DetectFirstPage ==
    /\ pc = "start"
    /\ LET verdict == FirstPageVerdict(
                          ProbePage(manager, HealthySource(total_commits),
                                    per_page, 1), per_page) IN
       /\ pc' = IF verdict = "search" THEN "search" ELSE "probed"
       /\ total_pages' = IF verdict = "one" THEN 1 ELSE 0
       /\ left' = IF verdict = "search" THEN 1 ELSE left
       /\ right' = IF verdict = "search" THEN SearchUpper(manager) ELSE right
       /\ last_valid_page' = IF verdict = "search" THEN 1 ELSE last_valid_page
    /\ UNCHANGED <<manager, total_commits, per_page, all_commits,
                   successful_pages, failed_pages>>
    /\ UNCHANGED classVars
    /\ UNCHANGED <<buildVars, compareVars, cacheVars, branchVars>>
    /\ UNCHANGED poolVars

\* one probe of the binary search
SearchProbe ==
    /\ pc = "search"
    /\ left <= right
    /\ LET mid == MidPage(left, right)
           step == SearchStep(left, right, last_valid_page, mid,
                              ProbePage(manager, HealthySource(total_commits),
                                        per_page, mid),
                              per_page) IN
       /\ left' = step.left
       /\ right' = step.right
       /\ last_valid_page' = step.last_valid_page
    /\ UNCHANGED <<manager, total_commits, per_page, pc, total_pages,
                   all_commits, successful_pages, failed_pages>>
    /\ UNCHANGED classVars
    /\ UNCHANGED <<buildVars, compareVars, cacheVars, branchVars>>
    /\ UNCHANGED poolVars

\* the window is empty: the probe returns last_valid_page
SearchReturn ==
    /\ pc = "search"
    /\ left > right
    /\ total_pages' = last_valid_page
    /\ pc' = "probed"
    /\ UNCHANGED <<manager, total_commits, per_page, left, right,
                   last_valid_page, all_commits, successful_pages, failed_pages>>
    /\ UNCHANGED classVars
    /\ UNCHANGED <<buildVars, compareVars, cacheVars, branchVars>>
    /\ UNCHANGED poolVars

\* no page: the fetch returns the empty list
ReturnEmpty ==
    /\ pc = "probed"
    /\ total_pages = 0
    /\ all_commits' = << >>
    /\ pc' = "returned"
    /\ UNCHANGED <<manager, total_commits, per_page, left, right,
                   last_valid_page, total_pages, successful_pages, failed_pages>>
    /\ UNCHANGED classVars
    /\ UNCHANGED <<buildVars, compareVars, cacheVars, branchVars>>
    /\ UNCHANGED poolVars

\* get_all_tag_commits_concurrent, second step: fetch and merge the pages
FetchAllPagesConcurrent ==
    /\ pc = "probed"
    /\ total_pages > 0
    /\ manager = "GitLabManager"
    /\ LET merged == FetchAllPages(HealthySource(total_commits), per_page,
                                   total_pages) IN
       /\ all_commits' = merged.all_commits
       /\ successful_pages' = merged.successful_pages
       /\ failed_pages' = merged.failed_pages
    /\ pc' = "returned"
    /\ UNCHANGED <<manager, total_commits, per_page, left, right,
                   last_valid_page, total_pages>>
    /\ UNCHANGED classVars
    /\ UNCHANGED <<buildVars, compareVars, cacheVars, branchVars>>
    /\ UNCHANGED poolVars

NextFetch ==
    \/ DetectFirstPage
    \/ SearchProbe
    \/ SearchReturn
    \/ ReturnEmpty
    \/ FetchAllPagesConcurrent

SpecFetch == InitFetch /\ [][NextFetch]_vars

(***************************************************************************)
(* Properties of the probe and of the fetch (checked under SpecFetch).     *)
(***************************************************************************)
Probed == pc \in {"probed", "returned"}

\* the page count of a ref of n commits, as far as the search can see it
CappedPages(m, n, p) == Min(Ceil(n, p), SearchUpper(m))

\* C1 as stated: the probe returns ceil(N/P) for every N >= 1 and every
\* P >= 1, and 0 when N = 0.
C1_ProbeReturnsCeil ==
    Probed => total_pages = Ceil(total_commits, per_page)

\* C1 as amended: the probe returns ceil(N/P) as long as that is at most the
\* search's upper bound (500 pages, 1000 in OptimizedGitLabManager), and the
\* upper bound beyond it; the page it returns is non-empty, and the page
\* after it is empty unless the upper bound was hit.
C1_ProbeReturnsCappedCeil ==
    Probed =>
        /\ total_pages = CappedPages(manager, total_commits, per_page)
        /\ total_pages >= 1 =>
               PageCount(total_commits, per_page, total_pages) > 0
        /\ total_pages < SearchUpper(manager) =>
               PageCount(total_commits, per_page, total_pages + 1) = 0

\* C1's case: the binary search ran and ended on a last page that is not full
C1_Witness ==
    /\ pc = "probed"
    /\ left > right
    /\ total_pages >= 2
    /\ total_commits % per_page # 0
    /\ total_pages = Ceil(total_commits, per_page)

\* C2 as stated: when N is an exact positive multiple of P the probe returns
\* N/P, and never N/P + 1.
C2_ExactMultiple ==
    (Probed /\ total_commits > 0 /\ total_commits % per_page = 0) =>
        /\ total_pages = total_commits \div per_page
        /\ total_pages # total_commits \div per_page + 1

\* C2 as amended: when N is an exact positive multiple of P the probe returns
\* N/P as long as N/P is at most the search's upper bound, the upper bound
\* beyond it, and never N/P + 1.
C2_ExactMultipleCapped ==
    (Probed /\ total_commits > 0 /\ total_commits % per_page = 0) =>
        /\ total_pages = Min(total_commits \div per_page, SearchUpper(manager))
        /\ total_pages # total_commits \div per_page + 1

\* C2's case: N = 200 and P = 100 give 2
C2_Witness ==
    /\ pc = "probed"
    /\ total_commits = 200
    /\ per_page = 100
    /\ left > right
    /\ total_pages = 2

Elements(seq) == {seq[i] : i \in 1 .. Len(seq)}

\* the list holds exactly the commits 1..n, each once
HoldsExactly(seq, n) == Len(seq) = n /\ Elements(seq) = 1 .. n

TaskIds == 1 .. NumTasks
FirstLines == 1 .. MaxLines

\* task_with_first_line = f"{task_id}||{first_line}"
TaskKey(task_id, first_line) == <<task_id, first_line>>

Keys == {TaskKey(t, l) : t \in TaskIds, l \in FirstLines}

\* the dict built from the (task id, first line) pairs in S
IndexOf(S) == [k \in S |-> k[1]]

\* every commit list gives some set of pairs, and every set of pairs comes
\* from some commit list (one commit per pair)
Indexes == {IndexOf(S) : S \in SUBSET Keys}

\* set(d.keys()), set(d.values())
KeySet(d) == DOMAIN d
ValueSet(d) == {d[k] : k \in DOMAIN d}

(***************************************************************************)
(* The order in which Python walks a set or a dict of keys. It is fixed    *)
(* within one process; the model takes the order of KeyRank.               *)
(***************************************************************************)
KeyRank(k) == (k[1] - 1) * MaxLines + k[2]

RECURSIVE IterList(_)
IterList(S) ==
    IF S = {} THEN << >>
    ELSE LET k == CHOOSE x \in S : \A y \in S : KeyRank(x) <= KeyRank(y) IN
         <<k>> \o IterList(S \ {k})

\* the messages of msgs that the dict d maps to task_id, in walking order
RECURSIVE MessagesOfTask(_, _, _)
MessagesOfTask(msgs, d, task_id) ==
    IF msgs = << >> THEN << >>
    ELSE (IF d[Head(msgs)] = task_id THEN <<Head(msgs)>> ELSE << >>)
         \o MessagesOfTask(Tail(msgs), d, task_id)

(***************************************************************************)
(* TaskLossDetector._analyze_version_tasks, stage 3.                       *)
(***************************************************************************)
MissingMessagesAllOld(old_messages, new_messages) == old_messages

\* missing_messages = old_messages - new_messages (and, with the arguments
\* exchanged, new_messages_only = new_messages - old_messages)
MissingMessages(old_messages, new_messages) == old_messages \ new_messages

\* the loops filling missing_commit_tasks and new_commit_tasks:
\* {task_id: [messages of msgs with that task id]}
GroupByTask(msgs, d) ==
    [task_id \in {d[m] : m \in msgs} |-> MessagesOfTask(IterList(msgs), d, task_id)]

CompletelyMissingAny(missing_commit_tasks, new_tasks) ==
    DOMAIN missing_commit_tasks

\* completely_missing_tasks: the tasks with a missing commit that the new
\* version does not have at all
CompletelyMissingTasks(missing_commit_tasks, new_tasks) ==
    {task_id \in DOMAIN missing_commit_tasks : task_id \notin new_tasks}

PartiallyMissingAny(missing_commit_tasks, new_tasks) ==
    missing_commit_tasks

\* partially_missing_tasks: the tasks with a missing commit that the new
\* version has, with their missing commits
PartiallyMissingTasks(missing_commit_tasks, new_tasks) ==
    [task_id \in {t \in DOMAIN missing_commit_tasks : t \in new_tasks}
        |-> missing_commit_tasks[task_id]]

CompletelyNewAll(old_tasks, new_tasks) == new_tasks

\* completely_new_tasks = new_tasks - old_tasks
CompletelyNewTasks(old_tasks, new_tasks) == new_tasks \ old_tasks

PartiallyNewAny(new_commit_tasks, old_tasks) == new_commit_tasks

\* partially_new_tasks: the tasks with a new commit that the old version has
PartiallyNewTasks(new_commit_tasks, old_tasks) ==
    [task_id \in {t \in DOMAIN new_commit_tasks : t \in old_tasks}
        |-> new_commit_tasks[task_id]]

CommonTasksUnion(old_tasks, new_tasks) == old_tasks \cup new_tasks

CommonTasksOldOnly(old_tasks, new_tasks) == old_tasks \ new_tasks

\* common_tasks = old_tasks & new_tasks
CommonTasks(old_tasks, new_tasks) == old_tasks \cap new_tasks

AllMissingOnlyComplete(completely_missing_tasks, partially_missing_tasks) ==
    completely_missing_tasks

\* all_missing_tasks = completely_missing_tasks | set(partially_missing_tasks.keys())
AllMissingTasks(completely_missing_tasks, partially_missing_tasks) ==
    completely_missing_tasks \cup DOMAIN partially_missing_tasks

\* new_features_with_commits: every completely new task with all its
\* messages of the new version, every partially new task with its new ones
NewFeaturesWithCommits(completely_new_tasks, partially_new_tasks, new_map) ==
    [task_id \in completely_new_tasks \cup DOMAIN partially_new_tasks |->
        IF task_id \in DOMAIN partially_new_tasks
        THEN partially_new_tasks[task_id]
        ELSE MessagesOfTask(IterList(KeySet(new_map)), new_map, task_id)]

AnalyzeVersionTasks(old_map, new_map) ==
    LET old_messages == KeySet(old_map)
        new_messages == KeySet(new_map)
        old_tasks == ValueSet(old_map)
        new_tasks == ValueSet(new_map)
        missing_messages == MissingMessages(old_messages, new_messages)
        new_messages_only == MissingMessages(new_messages, old_messages)
        missing_commit_tasks == GroupByTask(missing_messages, old_map)
        new_commit_tasks == GroupByTask(new_messages_only, new_map)
        completely_missing_tasks ==
            CompletelyMissingTasks(missing_commit_tasks, new_tasks)
        partially_missing_tasks ==
            PartiallyMissingTasks(missing_commit_tasks, new_tasks)
        completely_new_tasks == CompletelyNewTasks(old_tasks, new_tasks)
        partially_new_tasks == PartiallyNewTasks(new_commit_tasks, old_tasks)
    IN  [old_tasks |-> old_tasks,
         new_tasks |-> new_tasks,
         missing_tasks |->
             AllMissingTasks(completely_missing_tasks, partially_missing_tasks),
         new_features |->
             NewFeaturesWithCommits(completely_new_tasks, partially_new_tasks,
                                    new_map),
         common_tasks |-> CommonTasks(old_tasks, new_tasks),
         analysis |-> "success",
         detailed_analysis |->
             [completely_missing_tasks |-> completely_missing_tasks,
              partially_missing_tasks |-> partially_missing_tasks,
              completely_new_tasks |-> completely_new_tasks,
              partially_new_tasks |-> partially_new_tasks,
              missing_commit_messages |-> missing_messages,
              new_commit_messages |-> new_messages_only]]

(***************************************************************************)
(* OptimizedTaskLossDetector._analyze_version_tasks, stage 3: plain set    *)
(* algebra on the two task sets, no partial categories.                    *)
(***************************************************************************)
OptimizedAnalyzeVersionTasks(old_tasks, new_tasks) ==
    [old_tasks |-> old_tasks,
     new_tasks |-> new_tasks,
     missing_tasks |-> old_tasks \ new_tasks,
     new_features |-> new_tasks \ old_tasks,
     common_tasks |-> old_tasks \cap new_tasks,
     analysis |-> "success"]

(***************************************************************************)
(* One comparison of two task indexes.                                     *)
(***************************************************************************)
FetchIdle ==
    /\ manager = "GitLabManager"
    /\ total_commits = 0
    /\ per_page = tag_per_page
    /\ pc = "idle"
    /\ left = 0
    /\ right = 0
    /\ last_valid_page = 0
    /\ total_pages = 0
    /\ all_commits = << >>
    /\ successful_pages = 0
    /\ failed_pages = 0

InitClassify ==
    /\ old_commit_task_map \in Indexes
    /\ new_commit_task_map \in Indexes
    /\ detector = "none"
    /\ result = NoResult
    /\ FetchIdle
    /\ BuildIdle
    /\ CompareIdle
    /\ CacheIdle
    /\ BranchIdle
    /\ PoolIdle

\* TaskLossDetector._analyze_version_tasks on the two indexes
Analyze ==
    /\ detector' = "TaskLossDetector"
    /\ result' = AnalyzeVersionTasks(old_commit_task_map, new_commit_task_map)
    /\ UNCHANGED <<old_commit_task_map, new_commit_task_map>>
    /\ UNCHANGED fetchVars
    /\ UNCHANGED <<buildVars, compareVars, cacheVars, branchVars>>
    /\ UNCHANGED poolVars

\* OptimizedTaskLossDetector._analyze_version_tasks on the task sets of the
\* same two refs
AnalyzeOptimized ==
    /\ detector' = "OptimizedTaskLossDetector"
    /\ result' = OptimizedAnalyzeVersionTasks(ValueSet(old_commit_task_map),
                                              ValueSet(new_commit_task_map))
    /\ UNCHANGED <<old_commit_task_map, new_commit_task_map>>
    /\ UNCHANGED fetchVars
    /\ UNCHANGED <<buildVars, compareVars, cacheVars, branchVars>>
    /\ UNCHANGED poolVars

NextClassify ==
    \/ Analyze
    \/ AnalyzeOptimized

SpecClassify == InitClassify /\ [][NextClassify]_vars

(***************************************************************************)
(* Properties of the classifier (checked under SpecClassify).              *)
(***************************************************************************)
Classified == detector = "TaskLossDetector"
ClassifiedOptimized == detector = "OptimizedTaskLossDetector"

\* TaskSet(old), TaskSet(new): the value sets of the two indexes
OldTaskSet == ValueSet(old_commit_task_map)
NewTaskSet == ValueSet(new_commit_task_map)

\* the keys of the old ref that the new ref lacks and that belong to task t,
\* and the other way round
AbsentKeys(t) ==
    {k \in KeySet(old_commit_task_map) \ KeySet(new_commit_task_map) :
        old_commit_task_map[k] = t}
AddedKeys(t) ==
    {k \in KeySet(new_commit_task_map) \ KeySet(old_commit_task_map) :
        new_commit_task_map[k] = t}

\* the reported task id sets; new_features is a dict keyed by task id in
\* TaskLossDetector and a set of task ids in OptimizedTaskLossDetector
MissingIds == result.missing_tasks
NewIds == IF Classified THEN DOMAIN result.new_features ELSE result.new_features
CompletelyMissing == result.detailed_analysis.completely_missing_tasks
PartiallyMissing == result.detailed_analysis.partially_missing_tasks
CompletelyNew == result.detailed_analysis.completely_new_tasks
PartiallyNew == result.detailed_analysis.partially_new_tasks

C6_CommonMissingCoverOld ==
    detector # "none" => result.common_tasks \cup MissingIds = OldTaskSet

\* C6's case: a common task, a completely missing one, a partially missing one
C6_Witness ==
    /\ Classified
    /\ result.common_tasks # {}
    /\ CompletelyMissing # {}
    /\ DOMAIN PartiallyMissing # {}
    /\ NewTaskSet \ OldTaskSet = {}

\* C7: completely_missing and the keys of partially_missing are disjoint
\* and their union is missing_task_ids; the same for completely_new, the
\* keys of partially_new and new_task_ids.
C7_Partition ==
    Classified =>
        /\ CompletelyMissing \cap DOMAIN PartiallyMissing = {}
        /\ CompletelyMissing \cup DOMAIN PartiallyMissing = MissingIds
        /\ CompletelyNew \cap DOMAIN PartiallyNew = {}
        /\ CompletelyNew \cup DOMAIN PartiallyNew = NewIds

\* C7's case: both halves of the missing side are inhabited, and the new
\* side too
C7_Witness ==
    /\ Classified
    /\ CompletelyMissing # {}
    /\ DOMAIN PartiallyMissing # {}
    /\ DOMAIN PartiallyNew # {}

\* the scenario of C8: the old ref has a commit for task 1 and one for
\* task 2, the new ref only the one for task 2
C8_Scenario ==
    /\ old_commit_task_map = IndexOf({TaskKey(1, 1), TaskKey(2, 1)})
    /\ new_commit_task_map = IndexOf({TaskKey(2, 1)})

\* C8: completely_missing is exactly the task ids that are a value of
\* TaskIndex(old) and occur nowhere in TaskIndex(new); in the scenario
\* missing_task_ids = {1}, completely_missing = {1}, partially_missing = {}.
C8_CompletelyMissing ==
    Classified =>
        /\ CompletelyMissing = {t \in OldTaskSet : t \notin NewTaskSet}
        /\ C8_Scenario =>
               /\ MissingIds = {1}
               /\ CompletelyMissing = {1}
               /\ DOMAIN PartiallyMissing = {}

C8_Witness ==
    /\ Classified
    /\ C8_Scenario
    /\ CompletelyMissing = {1}

\* C9: T is a key of partially_missing exactly when T occurs in
\* TaskIndex(new) and a key mapped to T in TaskIndex(old) is absent from
\* TaskIndex(new); its value lists exactly those absent keys, each once,
\* and T is not completely missing.
C9_PartiallyMissing ==
    Classified =>
        \A t \in TaskIds :
            /\ t \in DOMAIN PartiallyMissing <=>
                   (t \in NewTaskSet /\ AbsentKeys(t) # {})
            /\ t \in DOMAIN PartiallyMissing =>
                   /\ Elements(PartiallyMissing[t]) = AbsentKeys(t)
                   /\ Len(PartiallyMissing[t]) = Cardinality(AbsentKeys(t))
                   /\ Len(PartiallyMissing[t]) > 0
                   /\ t \notin CompletelyMissing

\* C9's case: the old ref has "step one" and "step two" of task 1, the new
\* ref only "step one"
C9_Witness ==
    /\ Classified
    /\ old_commit_task_map = IndexOf({TaskKey(1, 1), TaskKey(1, 2)})
    /\ new_commit_task_map = IndexOf({TaskKey(1, 1)})
    /\ PartiallyMissing = [t \in {1} |-> <<TaskKey(1, 2)>>]
    /\ CompletelyMissing = {}

\* classify(B, A) for the classify(A, B) that was run
Mirror == AnalyzeVersionTasks(new_commit_task_map, old_commit_task_map)

\* C10: completely_new of (A, B) is completely_missing of (B, A), and
\* partially_new of (A, B) is partially_missing of (B, A) with the same
\* key lists.
C10_DirectionSymmetry ==
    Classified =>
        /\ CompletelyNew = Mirror.detailed_analysis.completely_missing_tasks
        /\ PartiallyNew = Mirror.detailed_analysis.partially_missing_tasks
        /\ CompletelyMissing = Mirror.detailed_analysis.completely_new_tasks
        /\ PartiallyMissing = Mirror.detailed_analysis.partially_new_tasks

\* C10's case: a completely new task beside a partially new one
C10_Witness ==
    /\ Classified
    /\ CompletelyNew # {}
    /\ DOMAIN PartiallyNew # {}
    /\ Len(PartiallyNew[CHOOSE t \in DOMAIN PartiallyNew : TRUE]) > 0

(***************************************************************************)
(* GitLabManager.extract_commit_messages_with_tasks: the task index of a   *)
(* commit list. A commit is its hash and its message; a message is its     *)
(* first line, the task ids the pattern finds in it, and whether it ends   *)
(* with the line "(cherry picked from commit <hash>)" that git cherry-pick *)
(* -x appends. A message whose first line itself ends with the annotation  *)
(* has annotated_first_line; its first line is another string than the     *)
(* first line without the annotation, numbered first_line + MaxLines.      *)
(***************************************************************************)
MaxCommits == 2

Messages ==
    [first_line : FirstLines, found_tasks : SUBSET TaskIds,
     cherry_picked : {FALSE}, annotated_first_line : {FALSE}]

\* the commit lists of at most MaxCommits commits, commit k carrying hash k
CommitLists ==
    UNION {[1 .. len -> Messages] : len \in 0 .. MaxCommits}

WithHashes(messages) ==
    [k \in 1 .. Len(messages) |-> [id |-> k, message |-> messages[k]]]

PutOnePerFirstLine(map, key, value) ==
    IF \E k \in DOMAIN map : k[2] = key[2] THEN map
    ELSE [k \in (DOMAIN map) \cup {key} |-> IF k = key THEN value ELSE map[k]]

PutDropsRepeated(map, key, value) ==
    IF key \in DOMAIN map THEN [k \in (DOMAIN map) \ {key} |-> map[k]]
    ELSE [k \in (DOMAIN map) \cup {key} |-> IF k = key THEN value ELSE map[k]]

\* commit_task_map[key] = task_id
Put(map, key, value) ==
    [k \in (DOMAIN map) \cup {key} |-> IF k = key THEN value ELSE map[k]]

FirstLineWithTrailer(message) ==
    IF message.cherry_picked \/ message.annotated_first_line
    THEN message.first_line + MaxLines
    ELSE message.first_line

\* message.split('\n')[0].strip()
FirstLine(message) ==
    IF message.annotated_first_line THEN message.first_line + MaxLines
    ELSE message.first_line

\* "for task_id in found_tasks": one assignment per task id found
RECURSIVE PutTasks(_, _, _)
PutTasks(map, message, found_tasks) ==
    IF found_tasks = {} THEN map
    ELSE LET task_id == CHOOSE t \in found_tasks : \A u \in found_tasks : t <= u IN
         PutTasks(Put(map, TaskKey(task_id, FirstLine(message)), task_id),
                  message, found_tasks \ {task_id})

\* "for commit in commits", from commit i on
RECURSIVE ExtractFrom(_, _, _)
ExtractFrom(commit_list, i, map) ==
    IF i > Len(commit_list) THEN map
    ELSE LET message == commit_list[i].message IN
         ExtractFrom(commit_list, i + 1,
                     IF message.found_tasks # {}
                     THEN PutTasks(map, message, message.found_tasks)
                     ELSE map)

ExtractCommitMessagesWithTasks(commit_list) ==
    ExtractFrom(commit_list, 1, EmptyIndex)

\* the commit git cherry-pick -x makes of a commit: another hash (and
\* author and date, which the builder does not read), the same first line
\* and task ids, and the trailing annotation
CherryPickOf(commit, hash) ==
    [id |-> hash,
     message |-> [commit.message EXCEPT !.cherry_picked = TRUE]]

\* the same commit with the annotation appended to its first line (a
\* one-line message picked with -x by a tool that joins the lines)
CherryPickOnFirstLine(commit, hash) ==
    [id |-> hash,
     message |-> [commit.message EXCEPT !.annotated_first_line = TRUE]]

InsertAt(seq, pos, x) ==
    SubSeq(seq, 1, pos) \o <<x>> \o SubSeq(seq, pos + 1, Len(seq))

InitBuild ==
    /\ input_commits \in {WithHashes(messages) : messages \in CommitLists}
    /\ commit_task_map = NotBuilt
    /\ previous_map = NotBuilt
    /\ build_pc = "fresh"
    /\ FetchIdle
    /\ ClassIdle
    /\ CompareIdle
    /\ CacheIdle
    /\ BranchIdle
    /\ PoolIdle

\* one call of the builder on the commit list
ExtractCommits ==
    /\ build_pc \in {"fresh", "built", "picked", "picked_first_line"}
    /\ previous_map' = commit_task_map
    /\ commit_task_map' = ExtractCommitMessagesWithTasks(input_commits)
    /\ build_pc' = CASE build_pc = "fresh" -> "built"
                     [] build_pc = "built" -> "rebuilt"
                     [] build_pc = "picked" -> "repicked"
                     [] build_pc = "picked_first_line" -> "repicked_first_line"
    /\ UNCHANGED input_commits
    /\ UNCHANGED <<fetchVars, classVars, compareVars, cacheVars, branchVars>>
    /\ UNCHANGED poolVars

\* a commit of the list is cherry-picked into the ref, at any place of the
\* list
AddCherryPick ==
    /\ build_pc = "built"
    /\ \E i \in 1 .. Len(input_commits), pos \in 0 .. Len(input_commits) :
           input_commits' = InsertAt(input_commits, pos,
                                CherryPickOf(input_commits[i],
                                             Len(input_commits) + 1))
    /\ build_pc' = "picked"
    /\ UNCHANGED <<commit_task_map, previous_map>>
    /\ UNCHANGED <<fetchVars, classVars, compareVars, cacheVars, branchVars>>
    /\ UNCHANGED poolVars

\* the same, with the annotation at the end of the first line
AddCherryPickOnFirstLine ==
    /\ build_pc = "built"
    /\ \E i \in 1 .. Len(input_commits), pos \in 0 .. Len(input_commits) :
           input_commits' = InsertAt(input_commits, pos,
                                CherryPickOnFirstLine(input_commits[i],
                                                      Len(input_commits) + 1))
    /\ build_pc' = "picked_first_line"
    /\ UNCHANGED <<commit_task_map, previous_map>>
    /\ UNCHANGED <<fetchVars, classVars, compareVars, cacheVars, branchVars>>
    /\ UNCHANGED poolVars

NextBuild ==
    \/ ExtractCommits
    \/ AddCherryPick
    \/ AddCherryPickOnFirstLine

SpecBuild == InitBuild /\ [][NextBuild]_vars

\* C11: building the index a second time from the same commit list gives
\* the same index, and so does building it after a cherry-pick duplicate of
\* one of the commits (same task ids, same first line, another hash) was
\* added to the list: the index and the task set are unchanged.
C11_DedupIdempotent ==
    build_pc \in {"rebuilt", "repicked"} =>
        /\ commit_task_map = previous_map
        /\ ValueSet(commit_task_map) = ValueSet(previous_map)

\* C11's case: the index was rebuilt after the cherry-pick of a commit that
\* carries a task was added
C11_Witness ==
    /\ build_pc = "repicked"
    /\ commit_task_map # EmptyIndex
    /\ \E k \in 1 .. Len(input_commits) :
           /\ input_commits[k].message.cherry_picked
           /\ input_commits[k].message.found_tasks # {}

\* commit_task_map is the index built from input_commits
Built == build_pc \in {"built", "rebuilt", "repicked", "repicked_first_line"}

\* the pairs (id, first line) of a commit list: id is matched in the
\* message of a commit whose first line is the line
Pairs(commit_list) ==
    UNION {{TaskKey(t, FirstLine(commit_list[k].message)) :
               t \in commit_list[k].message.found_tasks} :
           k \in 1 .. Len(commit_list)}

\* C23: the index built from a commit list is exactly the map from
\* key(id, first line of the message) to id over the pairs (commit, id)
\* where id is matched in the commit's message: one entry per distinct
\* identifier of a commit, none for a commit without an identifier.
C23_IndexContent ==
    Built =>
        /\ DOMAIN commit_task_map = Pairs(input_commits)
        /\ \A key \in DOMAIN commit_task_map : commit_task_map[key] = key[1]

\* C23's case: an index built from a commit that names two identifiers and
\* a commit that names none
C23_Witness ==
    /\ build_pc = "built"
    /\ Len(input_commits) = 2
    /\ Cardinality(input_commits[1].message.found_tasks) = 2
    /\ input_commits[2].message.found_tasks = {}
    /\ Cardinality(DOMAIN commit_task_map) = 2

RemoveAt(seq, pos) == SubSeq(seq, 1, pos - 1) \o SubSeq(seq, pos + 1, Len(seq))

\* the keys commit k of the list produces
KeysOfCommit(commit_list, k) == Pairs(<<commit_list[k]>>)

\* C24: when two commits of a list produce the same key, the later one
\* is ignored for that key: the index built from the list has the entry it
\* has without the later commit, and when every key of the later commit is
\* produced by an earlier one the index is the index built without it.
C24_FirstOccurrenceWins ==
    Built =>
        \A j \in 2 .. Len(input_commits) :
            LET without ==
                    ExtractCommitMessagesWithTasks(RemoveAt(input_commits, j))
                earlier == UNION {KeysOfCommit(input_commits, i) : i \in 1 .. j - 1}
                repeated == KeysOfCommit(input_commits, j) \cap earlier IN
            /\ \A key \in repeated :
                   /\ key \in DOMAIN commit_task_map
                   /\ commit_task_map[key] = without[key]
            /\ KeysOfCommit(input_commits, j) \subseteq earlier =>
                   commit_task_map = without

\* C24's case: an index built from two commits that produce the same key
C24_Witness ==
    /\ build_pc = "built"
    /\ Len(input_commits) = 2
    /\ input_commits[1] # input_commits[2]
    /\ KeysOfCommit(input_commits, 2) # {}
    /\ KeysOfCommit(input_commits, 2) \subseteq KeysOfCommit(input_commits, 1)
    /\ DOMAIN commit_task_map = KeysOfCommit(input_commits, 1)

\* C25: two commits that carry the same task id and whose messages differ
\* only by a cherry-pick annotation, wherever the annotation sits (the end
\* of the first line included), yield the same key: adding the annotated
\* copy of a commit of the list leaves the index as it was.
C25_Normalization ==
    build_pc \in {"repicked", "repicked_first_line"} =>
        commit_task_map = previous_map

(***************************************************************************)
(* One comparison of two refs by TaskLossDetector on GitLabManager, against *)
(* a source that may fail: get_all_tag_commits_concurrent of each ref, the  *)
(* failure checks and the classification of _analyze_version_tasks, and the *)
(* exposed operations detect_missing_tasks and analyze_new_features.        *)
(***************************************************************************)
MaxRefCommits == 3

\* what a faulty request is answered with
FaultStatuses == {401, 404, 500, Raises}

\* the sources of a ref: healthy, failing on every page, or failing on one
\* page, on every attempt, or serving a commit whose message is null
Sources ==
    {HealthySource(n) : n \in 0 .. MaxRefCommits}
    \cup [n : 0 .. MaxRefCommits, status : FaultStatuses, whole : {TRUE},
          pages : {{}}, fails : {retry_attempts}, null_message : {FALSE}]
    \cup [n : 0 .. MaxRefCommits, status : FaultStatuses, whole : {FALSE},
          pages : {{k} : k \in 1 .. MaxRefCommits}, fails : {retry_attempts},
          null_message : {FALSE}]
    \cup [n : 1 .. MaxRefCommits, status : {200}, whole : {FALSE},
          pages : {{}}, fails : {0}, null_message : {TRUE}]

\* "while left <= right" of _detect_total_pages, as one evaluation; probed
\* collects the pages requested
RECURSIVE BinarySearch(_, _, _, _, _, _, _)
BinarySearch(m, src, p, l, r, lv, probed) ==
    IF l > r THEN [total_pages |-> lv, probed |-> probed]
    ELSE LET mid == MidPage(l, r)
             step == SearchStep(l, r, lv, mid, ProbePage(m, src, p, mid), p) IN
         BinarySearch(m, src, p, step.left, step.right, step.last_valid_page,
                      probed \cup {mid})

\* _detect_total_pages
DetectTotalPages(m, src, p) ==
    LET verdict == FirstPageVerdict(ProbePage(m, src, p, 1), p) IN
    IF verdict = "zero" THEN [total_pages |-> 0, probed |-> {1}]
    ELSE IF verdict = "one" THEN [total_pages |-> 1, probed |-> {1}]
    ELSE BinarySearch(m, src, p, 1, SearchUpper(m), 1, {1})

\* get_all_tag_commits_concurrent: the list it returns, with what the probe
\* answered, the pages requested and the requests sent for each page
GetAllTagCommitsConcurrent(src, p) ==
    LET probe == DetectTotalPages("GitLabManager", src, p)
        merged == FetchAllPages(src, p, probe.total_pages) IN
    [all_commits |-> IF probe.total_pages = 0 THEN << >> ELSE merged.all_commits,
     total_pages |-> probe.total_pages,
     successful_pages |-> merged.successful_pages,
     failed_pages |-> merged.failed_pages,
     requested |-> probe.probed \cup (1 .. probe.total_pages),
     requests |-> [page \in probe.probed \cup (1 .. probe.total_pages) |->
                      FetchAttempt(src, p, page, 0).requests]]

\* the commit the source serves as number i: it names task i on its first
\* line when i is a task id, and no task otherwise; the message of commit 0
\* is None
SimplifiedCommit(i) ==
    [id |-> i,
     message |-> IF i = 0 THEN None
                 ELSE [first_line |-> 1,
                       found_tasks |-> IF i \in TaskIds THEN {i} ELSE {},
                       cherry_picked |-> FALSE,
                       annotated_first_line |-> FALSE]]

SimplifiedCommits(numbers) ==
    [k \in 1 .. Len(numbers) |-> SimplifiedCommit(numbers[k])]

\* dict.get(key, default)
Get(d, key, default) == IF key \in DOMAIN d THEN d[key] ELSE default

FailureBothOnly(old_commits, new_commits) ==
    IF old_commits = << >> /\ new_commits = << >> THEN "both_versions_failed"
    ELSE "none"

\* "if not old_commits and not new_commits ... elif not old_commits ... elif
\* not new_commits"
Failure(old_commits, new_commits) ==
    IF old_commits = << >> /\ new_commits = << >> THEN "both_versions_failed"
    ELSE IF old_commits = << >> THEN "old_version_failed"
    ELSE IF new_commits = << >> THEN "new_version_failed"
    ELSE "none"

\* the error message of a failure branch: its text and the versions it names
ErrorOf(failure) ==
    IF failure = "both_versions_failed"
    THEN [text |-> "cannot fetch commits of both versions: check token and tags",
          names |-> {"old", "new"}]
    ELSE IF failure = "old_version_failed"
    THEN [text |-> "cannot fetch commits of old version: check tag exists",
          names |-> {"old"}]
    ELSE [text |-> "cannot fetch commits of new version: check tag exists",
          names |-> {"new"}]

FailureStatuses ==
    {"both_versions_failed", "old_version_failed", "new_version_failed", "error"}

\* "commit.get('message', '').strip()" raises AttributeError on a message
\* that is None
StripRaises(commit_list) ==
    \E i \in 1 .. Len(commit_list) : commit_list[i].message = None

\* "except Exception as e" of _analyze_version_tasks
Caught(e) ==
    [old_tasks |-> {}, new_tasks |-> {}, missing_tasks |-> {},
     new_features |-> {}, common_tasks |-> {},
     error |-> [text |-> e, names |-> {}], analysis |-> "error"]

\* _analyze_version_tasks once both futures have resolved
AnalyzeFetched(old_commits, new_commits) ==
    LET failure == Failure(old_commits, new_commits) IN
    IF failure # "none"
    THEN [old_tasks |-> {}, new_tasks |-> {}, missing_tasks |-> {},
          new_features |-> {}, common_tasks |-> {},
          analysis |-> failure, error |-> ErrorOf(failure)]
    ELSE IF \/ StripRaises(SimplifiedCommits(old_commits))
            \/ StripRaises(SimplifiedCommits(new_commits))
    THEN Caught("AttributeError")
    ELSE [old_commits_count |-> Len(old_commits),
          new_commits_count |-> Len(new_commits)]
         @@ AnalyzeVersionTasks(
                ExtractCommitMessagesWithTasks(SimplifiedCommits(old_commits)),
                ExtractCommitMessagesWithTasks(SimplifiedCommits(new_commits)))

\* the dictionary detect_missing_tasks returns
MissingTasksPayload(res) ==
    [status |-> "detect_missing_tasks",
     missing_tasks |-> res.missing_tasks,
     old_tasks |-> res.old_tasks,
     new_tasks |-> res.new_tasks,
     new_features |-> res.new_features,
     common_tasks |-> res.common_tasks,
     analysis |-> res.analysis,
     error |-> Get(res, "error", None),
     old_commits_count |-> Get(res, "old_commits_count", 0),
     new_commits_count |-> Get(res, "new_commits_count", 0),
     detailed_analysis |-> Get(res, "detailed_analysis", None)]

\* the dictionary analyze_new_features returns; a key "task||first line" is
\* shown by its first line
NewFeaturesPayload(res) ==
    LET detailed_analysis == Get(res, "detailed_analysis", << >>)
        new_commit_messages ==
            {k[2] : k \in Get(detailed_analysis, "new_commit_messages", {})} IN
    [status |-> "analyze_new_features",
     new_features |-> new_commit_messages,
     new_commit_messages |-> new_commit_messages,
     old_tasks |-> res.old_tasks,
     new_tasks |-> res.new_tasks,
     common_tasks |-> res.common_tasks,
     analysis |-> res.analysis,
     error |-> Get(res, "error", None),
     old_commits_count |-> Get(res, "old_commits_count", 0),
     new_commits_count |-> Get(res, "new_commits_count", 0),
     detailed_analysis |->
         [completely_new_tasks |->
              Get(detailed_analysis, "completely_new_tasks", {}),
          partially_new_tasks |->
              Get(detailed_analysis, "partially_new_tasks", << >>),
          new_commit_messages |->
              Get(detailed_analysis, "new_commit_messages", {})]]

\* self.gitlab_manager and self.task_detector of a service constructed
\* while GitLabManager(...) raised
NoManager == "None"

\* "except Exception as e" of VersionComparisonService.detect_missing_tasks
\* and analyze_new_features
ServiceCaught(op, e) ==
    IF op = "detect_missing_tasks"
    THEN [status |-> op, missing_tasks |-> << >>, analysis |-> "error",
          error |-> [text |-> e, names |-> {}]]
    ELSE [status |-> op, new_features |-> << >>, analysis |-> "error",
          error |-> [text |-> e, names |-> {}]]

InitCompare ==
    /\ \/ /\ manager = "GitLabManager"
          /\ source \in [Refs -> Sources]
       \/ /\ manager = NoManager
          /\ source = [r \in Refs |-> HealthySource(0)]
    /\ fetched = [r \in Refs |-> NotFetched]
    /\ operation = "none"
    /\ payload = NoPayload
    /\ per_page \in 1 .. MaxPerPage
    /\ total_commits = 0
    /\ pc = "idle"
    /\ left = 0
    /\ right = 0
    /\ last_valid_page = 0
    /\ total_pages = 0
    /\ all_commits = << >>
    /\ successful_pages = 0
    /\ failed_pages = 0
    /\ ClassIdle
    /\ BuildIdle
    /\ CacheIdle
    /\ BranchIdle
    /\ PoolIdle

\* one of the two futures of "ThreadPoolExecutor(max_workers=2)" resolves;
\* the two fetches share no state, so each is one step
FetchRefCommits ==
    /\ manager # NoManager
    /\ \E r \in Refs :
           /\ fetched[r] = NotFetched
           /\ fetched' = [fetched EXCEPT
                             ![r] = GetAllTagCommitsConcurrent(source[r], per_page)]
    /\ UNCHANGED <<source, operation, payload>>
    /\ UNCHANGED <<fetchVars, classVars, buildVars, cacheVars, branchVars>>
    /\ UNCHANGED poolVars

FutureResultOfOld(resolved, r) == resolved["old"].all_commits

\* "old_commits = future_old.result()", "new_commits = future_new.result()"
FutureResult(resolved, r) == resolved[r].all_commits

\* both lists are in: the failure checks, then the two indexes and the
\* classification
AnalyzeBothVersions ==
    /\ manager # NoManager
    /\ \A r \in Refs : fetched[r] # NotFetched
    /\ result = NoResult
    /\ LET old_commits == FutureResult(fetched, "old")
           new_commits == FutureResult(fetched, "new")
           classifies == AnalyzeFetched(old_commits, new_commits).analysis
                             = "success" IN
       /\ result' = AnalyzeFetched(old_commits, new_commits)
       /\ detector' = IF classifies THEN "TaskLossDetector" ELSE detector
       /\ old_commit_task_map' =
              IF classifies
              THEN ExtractCommitMessagesWithTasks(SimplifiedCommits(old_commits))
              ELSE old_commit_task_map
       /\ new_commit_task_map' =
              IF classifies
              THEN ExtractCommitMessagesWithTasks(SimplifiedCommits(new_commits))
              ELSE new_commit_task_map
    /\ UNCHANGED <<fetchVars, buildVars, compareVars, cacheVars, branchVars>>
    /\ UNCHANGED poolVars

\* detect_missing_tasks returns
DetectMissingTasks ==
    /\ manager = NoManager \/ result # NoResult
    /\ payload = NoPayload
    /\ operation' = "detect_missing_tasks"
    /\ payload' = IF manager = NoManager
                  THEN ServiceCaught("detect_missing_tasks", "AttributeError")
                  ELSE MissingTasksPayload(result)
    /\ UNCHANGED <<source, fetched>>
    /\ UNCHANGED <<fetchVars, classVars, buildVars, cacheVars, branchVars>>
    /\ UNCHANGED poolVars

\* analyze_new_features returns
AnalyzeNewFeatures ==
    /\ manager = NoManager \/ result # NoResult
    /\ payload = NoPayload
    /\ operation' = "analyze_new_features"
    /\ payload' = IF manager = NoManager
                  THEN ServiceCaught("analyze_new_features", "AttributeError")
                  ELSE NewFeaturesPayload(result)
    /\ UNCHANGED <<source, fetched>>
    /\ UNCHANGED <<fetchVars, classVars, buildVars, cacheVars, branchVars>>
    /\ UNCHANGED poolVars

NextCompare ==
    \/ FetchRefCommits
    \/ AnalyzeBothVersions
    \/ DetectMissingTasks
    \/ AnalyzeNewFeatures

SpecCompare == InitCompare /\ [][NextCompare]_vars

(***************************************************************************)
(* Properties of the comparison (checked under SpecCompare).               *)
(***************************************************************************)
Returned == payload # NoPayload
BothFetched == \A r \in Refs : fetched[r] # NotFetched

\* the merge of ref r counted a page as failed while another page succeeded
PartialFetch(r) ==
    /\ fetched[r] # NotFetched
    /\ fetched[r].failed_pages > 0
    /\ fetched[r].successful_pages > 0

\* the fetch of ref r returned no commit
FetchFailed(r) == fetched[r] # NotFetched /\ fetched[r].all_commits = << >>

\* C12: whenever a page of a ref used up its retries while other pages of
\* the ref succeeded, the comparison declines to classify or its result
\* carries an indication of the partial failure (the only field of the
\* payload that can carry one is error).
C12_PartialNeverCompleteLoss ==
    (Returned /\ \E r \in Refs : PartialFetch(r)) =>
        \/ payload.analysis # "success"
        \/ payload.error # None

\* the empty values a failure payload carries for a detailed classification:
\* none from detect_missing_tasks, three empty collections from
\* analyze_new_features
NoClassification(p) ==
    IF p.status = "detect_missing_tasks" THEN p.detailed_analysis = None
    ELSE /\ p.detailed_analysis.completely_new_tasks = {}
         /\ p.detailed_analysis.partially_new_tasks = << >>
         /\ p.detailed_analysis.new_commit_messages = {}

\* the task sets a payload reports
ReportedSets(p) ==
    {p.old_tasks, p.new_tasks, p.common_tasks}
    \cup (IF p.status = "detect_missing_tasks" THEN {p.missing_tasks} ELSE {})
    \cup {p.new_features}

CaseOf(src) ==
    IF src.whole /\ src.status = 401 THEN "authentication failure"
    ELSE IF src.whole /\ src.status = 404 THEN "ref not found"
    ELSE IF src.whole THEN "transient"
    ELSE IF src.n = 0 THEN "zero commits"
    ELSE "commits"

FourCases == {"authentication failure", "ref not found", "transient", "zero commits"}

\* a source of each case
SourceOfCase(c) ==
    IF c = "authentication failure"
    THEN [n |-> 1, status |-> 401, whole |-> TRUE, pages |-> {},
          fails |-> retry_attempts, null_message |-> FALSE]
    ELSE IF c = "ref not found"
    THEN [n |-> 1, status |-> 404, whole |-> TRUE, pages |-> {},
          fails |-> retry_attempts, null_message |-> FALSE]
    ELSE IF c = "transient"
    THEN [n |-> 1, status |-> 500, whole |-> TRUE, pages |-> {},
          fails |-> retry_attempts, null_message |-> FALSE]
    ELSE HealthySource(0)

\* the payload the returning operation gives for these two commit lists
PayloadFor(op, old_commits, new_commits) ==
    IF op = "detect_missing_tasks"
    THEN MissingTasksPayload(AnalyzeFetched(old_commits, new_commits))
    ELSE NewFeaturesPayload(AnalyzeFetched(old_commits, new_commits))

\* C14: the outcome for a ref tells apart an authentication failure, a ref
\* that does not exist, a transient or unreachable server and a ref with
\* zero commits: two refs in different cases get different probe results,
\* and the payload differs from the payload the same comparison returns
\* with the new ref in another of the four cases.
C14_CasesDistinguished ==
    /\ (BothFetched
        /\ CaseOf(source["old"]) \in FourCases
        /\ CaseOf(source["new"]) \in FourCases
        /\ CaseOf(source["old"]) # CaseOf(source["new"])) =>
           fetched["old"].total_pages # fetched["new"].total_pages
    /\ (Returned /\ BothFetched /\ CaseOf(source["new"]) \in FourCases) =>
           \A c \in FourCases \ {CaseOf(source["new"])} :
               payload # PayloadFor(operation, fetched["old"].all_commits,
                              GetAllTagCommitsConcurrent(SourceOfCase(c),
                                                         per_page).all_commits)

\* C15: when both refs hold zero commits the comparison reports a "no data"
\* status that is not an error: no error message, and a status that is none
\* of the failure statuses.
C15_NoDataNotError ==
    (Returned /\ BothFetched
     /\ \A r \in Refs : CaseOf(source[r]) = "zero commits") =>
        /\ payload.error = None
        /\ payload.analysis \notin FailureStatuses

\* C16: an authentication failure is not retried: a page whose request is
\* answered 401 is requested exactly once.
C16_NoRetryOn401 ==
    \A r \in Refs :
        fetched[r] # NotFetched =>
            \A page \in fetched[r].requested :
                (source[r].status = 401 /\ FaultyPage(source[r], page)) =>
                    fetched[r].requests[page] = 1

\* the probe or a page fetch of ref r was answered 404
Received404(r) ==
    /\ fetched[r] # NotFetched
    /\ source[r].status = 404
    /\ \E page \in fetched[r].requested : FaultyPage(source[r], page)

\* C17: a 404 received by the probe or by any page fetch is fatal for the
\* ref: the comparison is aborted before the classification, whichever page
\* received it.
C17_NotFoundAborts ==
    (Returned /\ \E r \in Refs : Received404(r)) =>
        /\ payload.analysis # "success"
        /\ detector = "none"

\* a request for a page of ref r raised
RequestRaised(r) ==
    /\ fetched[r] # NotFetched
    /\ source[r].status = Raises
    /\ \E page \in fetched[r].requested : FaultyPage(source[r], page)

\* the index builder was given a commit whose message is None
IndexingRaised ==
    /\ BothFetched
    /\ Failure(fetched["old"].all_commits, fetched["new"].all_commits) = "none"
    /\ \E r \in Refs : StripRaises(SimplifiedCommits(fetched[r].all_commits))

\* the wrapper of the service called a method of a detector that is None
ServiceRaised == manager = NoManager

\* the payload is an error result: status 'error', a message, and every
\* task collection it carries empty
ErrorPayload(p) ==
    /\ p.analysis = "error"
    /\ p.error # None
    /\ IF ServiceRaised
       THEN \A f \in DOMAIN p \cap {"missing_tasks", "new_features"} :
                p[f] = << >>
       ELSE /\ \A set \in ReportedSets(p) : set = {}
            /\ NoClassification(p)

\* C22: no raw exception escapes detect_missing_tasks and
\* analyze_new_features: they always return a result value, and whenever an
\* exception was raised while fetching, indexing or classifying, that value
\* is a failure result with status 'error', an error message and empty task
\* sets.
C22_NoRawException ==
    Returned =>
        /\ "analysis" \in DOMAIN payload
        /\ ((\E r \in Refs : RequestRaised(r)) \/ IndexingRaised \/ ServiceRaised)
               => ErrorPayload(payload)

(***************************************************************************)
(* RequestCacheManager, driven by one caller: get, set, has and            *)
(* clear_and_report in any order.                                          *)
(***************************************************************************)
MaxGets == 3

\* f"branch_commits:{branch_name}" of the two refs
CacheKey(branch_name) == <<"branch_commits", branch_name>>
CacheKeys == {CacheKey(r) : r \in Refs}

\* the commit lists a caller stores
CacheValues == {[i \in 1 .. n |-> i] : n \in 1 .. MaxRefCommits}

CacheGetNoMiss(c, st, key) ==
    IF key \in DOMAIN c
    THEN [stats |-> [st EXCEPT !.hits = @ + 1, !.api_calls_saved = @ + 1],
          value |-> c[key]]
    ELSE [stats |-> st, value |-> None]

\* RequestCacheManager.get: the counters after the call and the value
\* returned
CacheGet(c, st, key) ==
    IF key \in DOMAIN c
    THEN [stats |-> [st EXCEPT !.hits = @ + 1, !.api_calls_saved = @ + 1],
          value |-> c[key]]
    ELSE [stats |-> [st EXCEPT !.misses = @ + 1], value |-> None]

\* round(hits / total_requests * 100, 1), in tenths of a percent
HitRate(st) ==
    LET total_requests == st.hits + st.misses IN
    IF total_requests > 0
    THEN (2 * 1000 * st.hits + total_requests) \div (2 * total_requests)
    ELSE 0

\* the report of clear_and_report (without the duration)
Report(c, st) ==
    [cache_size |-> Cardinality(DOMAIN c),
     hit_rate |-> HitRate(st),
     api_calls_saved |-> st.api_calls_saved,
     total_requests |-> st.hits + st.misses]

InitCache ==
    /\ cache = EmptyCache
    /\ stats = ZeroStats
    /\ call = [op |-> "none"]
    /\ returned = None
    /\ written = EmptyCache
    /\ gets = 0
    /\ FetchIdle
    /\ ClassIdle
    /\ BuildIdle
    /\ CompareIdle
    /\ BranchIdle
    /\ PoolIdle

\* what the caller remembers of a call: the call, and the counters and the
\* values set before it
CallOf(op, key) ==
    [op |-> op, key |-> key, stats |-> stats, written |-> written]

\* get(key)
Lookup ==
    /\ gets < MaxGets
    /\ \E key \in CacheKeys :
           LET got == CacheGet(cache, stats, key) IN
           /\ stats' = got.stats
           /\ returned' = got.value
           /\ call' = CallOf("get", key)
    /\ gets' = gets + 1
    /\ UNCHANGED <<cache, written>>
    /\ UNCHANGED <<fetchVars, classVars, buildVars, compareVars, branchVars>>
    /\ UNCHANGED poolVars

\* set(key, value)
Store ==
    /\ \E key \in CacheKeys, value \in CacheValues :
           /\ cache' = Put(cache, key, value)
           /\ written' = Put(written, key, value)
           /\ call' = CallOf("set", key)
    /\ returned' = None
    /\ UNCHANGED <<stats, gets>>
    /\ UNCHANGED <<fetchVars, classVars, buildVars, compareVars, branchVars>>
    /\ UNCHANGED poolVars

\* has(key)
Has ==
    /\ \E key \in CacheKeys :
           /\ returned' = [has |-> key \in DOMAIN cache]
           /\ call' = CallOf("has", key)
    /\ UNCHANGED <<cache, stats, written, gets>>
    /\ UNCHANGED <<fetchVars, classVars, buildVars, compareVars, branchVars>>
    /\ UNCHANGED poolVars

\* clear_and_report()
ClearAndReport ==
    /\ returned' = Report(cache, stats)
    /\ cache' = EmptyCache
    /\ stats' = ZeroStats
    /\ written' = EmptyCache
    /\ gets' = 0
    /\ call' = CallOf("clear", None)
    /\ UNCHANGED <<fetchVars, classVars, buildVars, compareVars, branchVars>>
    /\ UNCHANGED poolVars

NextCache ==
    \/ Lookup
    \/ Store
    \/ Has
    \/ ClearAndReport

SpecCache == InitCache /\ [][NextCache]_vars

\* C18: over any sequence of get, set and clear, get(k) returns the value
\* of the most recent set(k, v) since the last clear and counts a hit, get
\* of a key not set since the last clear returns absent and counts a miss,
\* hits + misses is the number of get calls since construction or the last
\* clear, and clear empties the cache, resets the counters and returns a
\* report whose total_requests is hits + misses before the clear.
C18_CacheContract ==
    /\ stats.hits + stats.misses = gets
    /\ call.op = "get" =>
           IF call.key \in DOMAIN call.written
           THEN /\ returned = call.written[call.key]
                /\ stats.hits = call.stats.hits + 1
                /\ stats.misses = call.stats.misses
           ELSE /\ returned = None
                /\ stats.misses = call.stats.misses + 1
                /\ stats.hits = call.stats.hits
    /\ call.op = "clear" =>
           /\ cache = EmptyCache
           /\ stats = ZeroStats
           /\ returned.total_requests = call.stats.hits + call.stats.misses

\* C18's case: after a miss, a get returns the value last set for its key
\* and counts the second hit
C18_Witness ==
    /\ call.op = "get"
    /\ call.key \in DOMAIN call.written
    /\ returned = call.written[call.key]
    /\ stats.hits = 2
    /\ stats.misses = 1

(***************************************************************************)
(* Comparisons by OptimizedTaskLossDetector on one OptimizedGitLabManager. *)
(* Each comparison runs get_all_branch_commits_concurrent of its two refs  *)
(* on two threads that share the manager's RequestCacheManager. The cache  *)
(* takes no lock: "key in self.cache", the read and the write of a counter *)
(* by "+= 1" and "return self.cache[key]" are separate steps of a thread.  *)
(***************************************************************************)
MaxComparisons == 2

\* fetch_page: up to retry_attempts requests, any status but 200 retried
RECURSIVE FetchPage(_, _, _, _)
FetchPage(src, p, page_num, attempt) ==
    LET response == ListCommits(src, p, page_num, attempt) IN
    IF ~response.raised /\ response.status_code = 200
    THEN [commits |-> response.json, success |-> TRUE, attempt |-> attempt + 1]
    ELSE IF attempt = retry_attempts - 1
    THEN [commits |-> << >>, success |-> FALSE, attempt |-> attempt + 1]
    ELSE FetchPage(src, p, page_num, attempt + 1)

\* "for future in as_completed(futures)": the pages are merged in the order
\* in which they complete
RECURSIVE MergeCompleted(_, _, _, _)
MergeCompleted(src, p, order, i) ==
    IF i > Len(order) THEN << >>
    ELSE LET page == FetchPage(src, p, order[i], 0) IN
         (IF page.success THEN page.commits ELSE << >>)
         \o MergeCompleted(src, p, order, i + 1)

\* the orders in which the pages 1..total can complete
CompletionOrders(total) ==
    {order \in [1 .. total -> 1 .. total] :
        \A i, j \in 1 .. total : order[i] = order[j] => i = j}

\* get_all_branch_commits_concurrent after a cache miss: the page
\* information, then the pages
FetchBranchCommitsLosesLate(src, p, order) ==
    IF \E i \in 1 .. Len(order) : order[i] # i
    THEN MergeCompleted(src, p, SubSeq(order, 1, Len(order) - 1), 1)
    ELSE MergeCompleted(src, p, order, 1)

FetchBranchCommits(src, p, order) == MergeCompleted(src, p, order, 1)

BranchTotalPages(src, p) ==
    DetectTotalPages("OptimizedGitLabManager", src, p).total_pages

Calling == [pc |-> "call", counter |-> 0, result |-> << >>, served_from |-> 0]

InitBranches ==
    /\ source \in [Refs -> {HealthySource(n) : n \in 0 .. MaxRefCommits}]
    /\ fetched = [r \in Refs |-> NotFetched]
    /\ operation = "none"
    /\ payload = NoPayload
    /\ cache = EmptyCache
    /\ stats = ZeroStats
    /\ call = [op |-> "none"]
    /\ returned = None
    /\ written = EmptyCache
    /\ gets = 0
    /\ thread = [r \in Refs |-> Calling]
    /\ comparison = 1
    /\ PoolIdle
    /\ manager = "OptimizedGitLabManager"
    /\ per_page \in {MaxPerPage, branch_per_page}
    /\ total_commits = 0
    /\ pc = "idle"
    /\ left = 0
    /\ right = 0
    /\ last_valid_page = 0
    /\ total_pages = 0
    /\ all_commits = << >>
    /\ successful_pages = 0
    /\ failed_pages = 0
    /\ ClassIdle
    /\ BuildIdle

\* the counter get() is about to add one to
CounterAt(position) ==
    IF position \in {"hit", "hit_write"} THEN "hits"
    ELSE IF position \in {"saved", "saved_write"} THEN "api_calls_saved"
    ELSE "misses"

\* cache.get, "if key in self.cache"
TestKey ==
    /\ \E r \in Refs :
           /\ thread[r].pc = "call"
           /\ thread' = [thread EXCEPT ![r].pc =
                            IF CacheKey(r) \in DOMAIN cache THEN "hit" ELSE "miss"]
    /\ gets' = gets + 1
    /\ UNCHANGED <<cache, stats, call, returned, written, comparison>>
    /\ UNCHANGED <<fetchVars, classVars, buildVars, compareVars>>
    /\ UNCHANGED poolVars

\* cache.get, "self.stats[...] += 1": the counter is read
ReadCounter ==
    /\ \E r \in Refs :
           /\ thread[r].pc \in {"hit", "saved", "miss"}
           /\ thread' = [thread EXCEPT
                            ![r].counter = stats[CounterAt(thread[r].pc)],
                            ![r].pc = CASE thread[r].pc = "hit" -> "hit_write"
                                        [] thread[r].pc = "saved" -> "saved_write"
                                        [] thread[r].pc = "miss" -> "miss_write"]
    /\ UNCHANGED <<cache, stats, call, returned, written, gets, comparison>>
    /\ UNCHANGED <<fetchVars, classVars, buildVars, compareVars>>
    /\ UNCHANGED poolVars

\* cache.get, "self.stats[...] += 1": the counter read, plus one, is written
WriteCounter ==
    /\ \E r \in Refs :
           /\ thread[r].pc \in {"hit_write", "saved_write", "miss_write"}
           /\ stats' = [stats EXCEPT
                           ![CounterAt(thread[r].pc)] = thread[r].counter + 1]
           /\ thread' = [thread EXCEPT
                            ![r].pc = CASE thread[r].pc = "hit_write" -> "saved"
                                        [] thread[r].pc = "saved_write" -> "return"
                                        [] thread[r].pc = "miss_write" -> "fetch"]
    /\ UNCHANGED <<cache, call, returned, written, gets, comparison>>
    /\ UNCHANGED <<fetchVars, classVars, buildVars, compareVars>>
    /\ UNCHANGED poolVars

\* cache.get returns self.cache[key], and the manager returns the cached
\* list
ReturnCached ==
    /\ \E r \in Refs :
           /\ thread[r].pc = "return"
           /\ thread' = [thread EXCEPT
                            ![r].result = cache[CacheKey(r)],
                            ![r].served_from = written[CacheKey(r)],
                            ![r].pc = "done"]
    /\ UNCHANGED <<cache, stats, call, returned, written, gets, comparison>>
    /\ UNCHANGED <<fetchVars, classVars, buildVars, compareVars>>
    /\ UNCHANGED poolVars

\* after a miss: the pages are fetched and the list, unless empty, is set
\* in the cache; written remembers the comparison that set it
FetchAndStore ==
    /\ \E r \in Refs :
           /\ thread[r].pc = "fetch"
           /\ \E order \in CompletionOrders(BranchTotalPages(source[r], per_page)) :
                  LET commits == FetchBranchCommits(source[r], per_page, order) IN
                  /\ thread' = [thread EXCEPT ![r].result = commits,
                                               ![r].pc = "done"]
                  /\ cache' = IF commits # << >>
                              THEN Put(cache, CacheKey(r), commits) ELSE cache
                  /\ written' = IF commits # << >>
                                THEN Put(written, CacheKey(r), comparison)
                                ELSE written
    /\ UNCHANGED <<stats, call, returned, gets, comparison>>
    /\ UNCHANGED <<fetchVars, classVars, buildVars, compareVars>>
    /\ UNCHANGED poolVars

\* OptimizedGitLabManager.clear_cache between two comparisons: it calls
\* self.cache.clear(), a method RequestCacheManager does not have, so the
\* call raises and the cache stays as it is
ClearCache ==
    /\ \A r \in Refs : thread[r].pc = "done"
    /\ call' = [op |-> "clear_cache"]
    /\ returned' = [raised |-> "AttributeError"]
    /\ UNCHANGED <<cache, stats, written, gets, thread, comparison>>
    /\ UNCHANGED <<fetchVars, classVars, buildVars, compareVars>>
    /\ UNCHANGED poolVars

\* the comparison returns and a later one starts on the same manager; the
\* refs may have changed in between
NextComparison ==
    /\ \A r \in Refs : thread[r].pc = "done"
    /\ comparison < MaxComparisons
    /\ comparison' = comparison + 1
    /\ thread' = [r \in Refs |-> Calling]
    /\ source' \in [Refs -> {HealthySource(n) : n \in 0 .. MaxRefCommits}]
    /\ UNCHANGED <<fetched, operation, payload>>
    /\ UNCHANGED <<cache, stats, call, returned, written, gets>>
    /\ UNCHANGED <<fetchVars, classVars, buildVars>>
    /\ UNCHANGED poolVars

NextBranches ==
    \/ TestKey
    \/ ReadCounter
    \/ WriteCounter
    \/ ReturnCached
    \/ FetchAndStore
    \/ ClearCache
    \/ NextComparison

SpecBranches == InitBranches /\ [][NextBranches]_vars

AllDone == \A r \in Refs : thread[r].pc = "done"

\* C19: the cache is scoped to one comparison: it is cleared at the end of
\* each comparison, so a comparison starts on an empty cache and no list
\* set during one comparison is served to a later one.
C19_ScopedToComparison ==
    /\ (\A r \in Refs : thread[r].pc = "call") => cache = EmptyCache
    /\ \A r \in Refs :
           (thread[r].pc = "done" /\ thread[r].served_from # 0) =>
               thread[r].served_from = comparison

\* C20: the cache serializes its reads and writes: once the two fetches of
\* a comparison have returned, the cache and its counters are in a state
\* some sequential order of the same calls reaches: no counter update is
\* lost (hits + misses is the number of get calls made, every hit saved one
\* call) and every list set is in the cache.
C20_Serialized ==
    AllDone =>
        /\ stats.hits + stats.misses = gets
        /\ stats.api_calls_saved = stats.hits
        /\ \A r \in Refs :
               (thread[r].served_from = 0 /\ thread[r].result # << >>) =>
                   /\ CacheKey(r) \in DOMAIN cache
                   /\ cache[CacheKey(r)] = thread[r].result

(***************************************************************************)
(* One comparison with the completion order of the page fetches of each    *)
(* ref left open. GitLabManager merges the futures in the order in which   *)
(* it submitted them, OptimizedGitLabManager in the order in which they    *)
(* complete. TaskLossDetector then builds the two indexes,                 *)
(* OptimizedTaskLossDetector the two task sets.                            *)
(***************************************************************************)

\* extract_branch_tasks_local: the set of the task ids of all messages
ExtractBranchTasksLocal(commit_list) ==
    UNION {commit_list[i].message.found_tasks : i \in 1 .. Len(commit_list)}

\* the list a manager returns for a ref whose pages complete in this order
MergedCommits(m, src, p, order) ==
    IF m = "GitLabManager" THEN GetAllTagCommitsConcurrent(src, p).all_commits
    ELSE FetchBranchCommits(src, p, order)

\* the index of a ref: the dict of TaskLossDetector, the task set of
\* OptimizedTaskLossDetector
TaskIndex(m, commit_list) ==
    IF m = "GitLabManager"
    THEN ExtractCommitMessagesWithTasks(SimplifiedCommits(commit_list))
    ELSE ExtractBranchTasksLocal(SimplifiedCommits(commit_list))

\* stages 2 and 3 of _analyze_version_tasks of the detector of manager m
Classification(m, old_commits, new_commits) ==
    IF m = "GitLabManager" THEN AnalyzeFetched(old_commits, new_commits)
    ELSE IF Failure(old_commits, new_commits) # "none"
    THEN AnalyzeFetched(old_commits, new_commits)
    ELSE OptimizedAnalyzeVersionTasks(TaskIndex(m, old_commits),
                                      TaskIndex(m, new_commits))

InitOrder ==
    /\ manager \in Managers
    /\ per_page \in 1 .. MaxPerPage
    /\ source \in [Refs -> {HealthySource(n) : n \in 0 .. MaxRefCommits}]
    /\ fetched = [r \in Refs |-> NotFetched]
    /\ operation = "none"
    /\ payload = NoPayload
    /\ total_commits = 0
    /\ pc = "idle"
    /\ left = 0
    /\ right = 0
    /\ last_valid_page = 0
    /\ total_pages = 0
    /\ all_commits = << >>
    /\ successful_pages = 0
    /\ failed_pages = 0
    /\ ClassIdle
    /\ BuildIdle
    /\ CacheIdle
    /\ BranchIdle
    /\ PoolIdle

\* the fetch of one ref returns: its pages completed in some order
FetchRefInOrder ==
    /\ \E r \in Refs :
           /\ fetched[r] = NotFetched
           /\ LET total == DetectTotalPages(manager, source[r], per_page).total_pages IN
              \E order \in CompletionOrders(total) :
                  fetched' = [fetched EXCEPT
                      ![r] = [all_commits |->
                                  MergedCommits(manager, source[r], per_page, order),
                              total_pages |-> total,
                              order |-> order]]
    /\ UNCHANGED <<source, operation, payload>>
    /\ UNCHANGED <<fetchVars, classVars, buildVars, cacheVars, branchVars>>
    /\ UNCHANGED poolVars

\* both lists are in: the failure checks, the two indexes, the
\* classification
AnalyzeMerged ==
    /\ \A r \in Refs : fetched[r] # NotFetched
    /\ result = NoResult
    /\ LET old_commits == fetched["old"].all_commits
           new_commits == fetched["new"].all_commits
           classifies == Failure(old_commits, new_commits) = "none" IN
       /\ result' = Classification(manager, old_commits, new_commits)
       /\ detector' = IF manager = "GitLabManager" THEN "TaskLossDetector"
                      ELSE "OptimizedTaskLossDetector"
       /\ old_commit_task_map' =
              IF classifies THEN TaskIndex(manager, old_commits)
              ELSE old_commit_task_map
       /\ new_commit_task_map' =
              IF classifies THEN TaskIndex(manager, new_commits)
              ELSE new_commit_task_map
    /\ UNCHANGED <<fetchVars, buildVars, compareVars, cacheVars, branchVars>>
    /\ UNCHANGED poolVars

NextOrder ==
    \/ FetchRefInOrder
    \/ AnalyzeMerged

SpecOrder == InitOrder /\ [][NextOrder]_vars

\* the commits of a ref in page order
PageOrderCommits(r) ==
    FetchAllPages(source[r], per_page, fetched[r].total_pages).all_commits

OutOfOrder(r) ==
    /\ fetched[r] # NotFetched
    /\ \E i \in 1 .. Len(fetched[r].order) : fetched[r].order[i] # i

\* C21: the completion order of the page fetches is irrelevant: whatever
\* the order in which the pages of the two refs complete and are merged,
\* the index of each ref and the result of the comparison are those of the
\* pages taken in page order; the index built by
\* extract_commit_messages_with_tasks is the same for the list merged in any
\* order.
C21_OrderIrrelevant ==
    /\ \A r \in Refs :
           fetched[r] # NotFetched =>
               /\ TaskIndex(manager, fetched[r].all_commits)
                      = TaskIndex(manager, PageOrderCommits(r))
               /\ ExtractCommitMessagesWithTasks(
                      SimplifiedCommits(fetched[r].all_commits))
                      = ExtractCommitMessagesWithTasks(
                            SimplifiedCommits(PageOrderCommits(r)))
    /\ result # NoResult =>
           /\ result = Classification(manager, PageOrderCommits("old"),
                                      PageOrderCommits("new"))
           /\ result.analysis = "success" =>
                  /\ old_commit_task_map
                         = TaskIndex(manager, PageOrderCommits("old"))
                  /\ new_commit_task_map
                         = TaskIndex(manager, PageOrderCommits("new"))

\* C21's case: a comparison classified from two lists that were merged out
\* of page order and differ from the page-order lists
C21_Witness ==
    /\ result # NoResult
    /\ result.analysis = "success"
    /\ result.common_tasks = TaskIds
    /\ \A r \in Refs :
           /\ OutOfOrder(r)
           /\ fetched[r].all_commits # PageOrderCommits(r)

(***************************************************************************)
(* One fetch of one ref, request by request: the probe sends one request   *)
(* at a time, _fetch_all_pages_concurrent then submits one task per page   *)
(* to a ThreadPoolExecutor whose workers take the queued tasks in order,   *)
(* and the calling thread merges the results. The model's pool has         *)
(* MaxWorkers workers.                                                     *)
(***************************************************************************)
MaxWorkers == 2

\* the sources of the fetched ref: healthy, or answering the status on the
\* first attempt or on every attempt of each page or of one page
PoolSources ==
    {HealthySource(n) : n \in 0 .. MaxRefCommits}
    \cup [n : {MaxRefCommits}, status : FaultStatuses, whole : {TRUE},
          pages : {{}}, fails : {1, retry_attempts}, null_message : {FALSE}]
    \cup [n : {MaxRefCommits}, status : FaultStatuses, whole : {FALSE},
          pages : {{k} : k \in 1 .. MaxRefCommits},
          fails : {1, retry_attempts}, null_message : {FALSE}]

\* "return None" of _get_commits_page_info
NoPageInfo == -1

StatusOf(response) ==
    IF response.raised THEN Raises ELSE response.status_code

\* what one iteration of "for attempt in range(retry_attempts)" does with
\* the response: return the page, return [] or go on to the next attempt
AfterResponse(m, response, attempt) ==
    IF StatusOf(response) = 200
    THEN [retry |-> FALSE, commits |-> response.json, success |-> TRUE]
    ELSE IF m = "GitLabManager" /\ StatusOf(response) = 404
    THEN [retry |-> FALSE, commits |-> << >>, success |-> FALSE]
    ELSE IF attempt = retry_attempts - 1
    THEN [retry |-> FALSE, commits |-> << >>, success |-> FALSE]
    ELSE [retry |-> TRUE, commits |-> << >>, success |-> FALSE]

\* the same for a probe request: _fetch_single_page in GitLabManager, one
\* requests.get without retry in OptimizedGitLabManager
ProbeAfterResponse(m, response, attempt) ==
    IF m = "GitLabManager" THEN AfterResponse(m, response, attempt)
    ELSE [retry |-> FALSE,
          commits |-> IF StatusOf(response) = 200 THEN response.json ELSE << >>,
          success |-> StatusOf(response) = 200]

CandidatesBothHalves(l, r) ==
    {MidPage(l, r), MidPage(MidPage(l, r) + 1, Max(r, MidPage(l, r) + 1))}

\* "mid = (left + right) // 2": the pages the next probe requests
Candidates(l, r) == {MidPage(l, r)}

ProbeRequests(pages) == {[page |-> page, attempt |-> 0] : page \in pages}

\* executor.submit(fetch, page)
Future(page) ==
    [page |-> page, state |-> "queued", attempt |-> 0, statuses |-> << >>,
     commits |-> << >>, success |-> FALSE]

Running(fs) == {i \in DOMAIN fs : fs[i].state = "running"}

WorkerAlwaysAvailable(fs) == Cardinality(Running(fs)) <= MaxWorkers

\* ThreadPoolExecutor(max_workers): a queued task starts when fewer than
\* max_workers tasks are running
WorkerAvailable(fs) == Cardinality(Running(fs)) < MaxWorkers

MergeOneDropsRetried(m, future) ==
    IF Len(future.statuses) > 1
    THEN [all_commits |-> << >>, successful_pages |-> 0, failed_pages |-> 1]
    ELSE IF m = "GitLabManager" THEN CollectOne(future.commits)
    ELSE IF future.success
    THEN [all_commits |-> future.commits, successful_pages |-> 1,
          failed_pages |-> 0]
    ELSE [all_commits |-> << >>, successful_pages |-> 0, failed_pages |-> 1]

\* one future's share of the merge: "if commits" in GitLabManager, "if
\* result['success']" in OptimizedGitLabManager
MergeOne(m, future) ==
    IF m = "GitLabManager" THEN CollectOne(future.commits)
    ELSE IF future.success
    THEN [all_commits |-> future.commits, successful_pages |-> 1,
          failed_pages |-> 0]
    ELSE [all_commits |-> << >>, successful_pages |-> 0, failed_pages |-> 1]

\* the future the merge loop can take: the next one in submission order in
\* GitLabManager, any completed one in OptimizedGitLabManager
MergeReady(m, fs, i) ==
    /\ fs[i].state = "done"
    /\ m = "GitLabManager" => \A j \in 1 .. i - 1 : fs[j].state = "merged"

\* every task of range(1, total_pages + 1) has been submitted
Submitted == pc = "dispatch" /\ Len(futures) = LastSubmitted(total_pages)

InitPool ==
    /\ manager \in Managers
    /\ per_page \in 1 .. MaxPerPage
    /\ ref_source \in PoolSources
    /\ request = {}
    /\ futures = << >>
    /\ probes = << >>
    /\ pc = "call"
    /\ total_commits = 0
    /\ left = 0
    /\ right = 0
    /\ last_valid_page = 0
    /\ total_pages = 0
    /\ all_commits = << >>
    /\ successful_pages = 0
    /\ failed_pages = 0
    /\ ClassIdle
    /\ BuildIdle
    /\ CompareIdle
    /\ CacheIdle
    /\ BranchIdle

\* get_all_tag_commits_concurrent / get_all_branch_commits_concurrent is
\* called: the cache of the optimized manager misses, and the request for
\* page 1 is sent
CallFetch ==
    /\ pc = "call"
    /\ pc' = "first"
    /\ request' = ProbeRequests({1})
    /\ stats' = IF manager = "OptimizedGitLabManager"
                THEN CacheGet(cache, stats, CacheKey("old")).stats ELSE stats
    /\ gets' = IF manager = "OptimizedGitLabManager" THEN gets + 1 ELSE gets
    /\ UNCHANGED <<manager, total_commits, per_page, left, right,
                   last_valid_page, total_pages, all_commits,
                   successful_pages, failed_pages>>
    /\ UNCHANGED <<cache, call, returned, written>>
    /\ UNCHANGED <<ref_source, futures, probes>>
    /\ UNCHANGED <<classVars, buildVars, compareVars, branchVars>>

\* the response to a probe request arrives: the attempt is repeated, or the
\* probe decides on the page and sends its next request or returns the page
\* count
ReceiveProbe ==
    /\ pc \in {"first", "search"}
    /\ \E req \in request :
         LET response == ListCommits(ref_source, per_page, req.page, req.attempt)
             after == ProbeAfterResponse(manager, response, req.attempt)
             verdict == FirstPageVerdict(after.commits, per_page)
             step == SearchStep(left, right, last_valid_page, req.page,
                                after.commits, per_page) IN
         IF after.retry
         THEN /\ request' = (request \ {req})
                                \cup {[req EXCEPT !.attempt = @ + 1]}
              /\ UNCHANGED <<pc, left, right, last_valid_page, total_pages>>
         ELSE IF pc = "first"
         THEN IF manager = "OptimizedGitLabManager" /\ ~after.success
              THEN /\ total_pages' = NoPageInfo
                   /\ pc' = "done"
                   /\ request' = request \ {req}
                   /\ UNCHANGED <<left, right, last_valid_page>>
              ELSE IF verdict = "zero"
              THEN /\ total_pages' = 0
                   /\ pc' = IF manager = "GitLabManager" THEN "done"
                            ELSE "dispatch"
                   /\ request' = request \ {req}
                   /\ UNCHANGED <<left, right, last_valid_page>>
              ELSE IF verdict = "one"
              THEN /\ total_pages' = 1
                   /\ pc' = "dispatch"
                   /\ request' = request \ {req}
                   /\ UNCHANGED <<left, right, last_valid_page>>
              ELSE /\ left' = 1
                   /\ right' = SearchUpper(manager)
                   /\ last_valid_page' = 1
                   /\ pc' = "search"
                   /\ request' = (request \ {req})
                          \cup ProbeRequests(Candidates(1, SearchUpper(manager)))
                   /\ UNCHANGED total_pages
         ELSE /\ left' = step.left
              /\ right' = step.right
              /\ last_valid_page' = step.last_valid_page
              /\ IF step.left > step.right
                 THEN /\ total_pages' = step.last_valid_page
                      /\ pc' = "dispatch"
                      /\ request' = request \ {req}
                 ELSE /\ request' = (request \ {req})
                             \cup ProbeRequests(Candidates(step.left, step.right))
                      /\ UNCHANGED <<pc, total_pages>>
    /\ UNCHANGED <<manager, total_commits, per_page, all_commits,
                   successful_pages, failed_pages>>
    /\ UNCHANGED <<ref_source, futures, probes>>
    /\ UNCHANGED <<classVars, buildVars, compareVars, cacheVars, branchVars>>

\* "for page in range(1, total_pages + 1): executor.submit(...)"
Submit ==
    /\ pc = "dispatch"
    /\ Len(futures) < LastSubmitted(total_pages)
    /\ futures' = Append(futures, Future(Len(futures) + 1))
    /\ UNCHANGED fetchVars
    /\ UNCHANGED <<ref_source, request, probes>>
    /\ UNCHANGED <<classVars, buildVars, compareVars, cacheVars, branchVars>>

\* a worker takes the first queued task and sends its first request
StartWorker ==
    /\ pc = "dispatch"
    /\ WorkerAvailable(futures)
    /\ \E i \in DOMAIN futures :
           /\ futures[i].state = "queued"
           /\ \A j \in 1 .. i - 1 : futures[j].state # "queued"
           /\ futures' = [futures EXCEPT ![i].state = "running"]
    /\ UNCHANGED fetchVars
    /\ UNCHANGED <<ref_source, request, probes>>
    /\ UNCHANGED <<classVars, buildVars, compareVars, cacheVars, branchVars>>

\* the response to the request of a running task arrives: the task sends
\* the next attempt or returns
WorkerReceive ==
    /\ pc = "dispatch"
    /\ \E i \in Running(futures) :
         LET response == ListCommits(ref_source, per_page, futures[i].page,
                                     futures[i].attempt)
             after == AfterResponse(manager, response, futures[i].attempt) IN
         futures' = [futures EXCEPT
             ![i] = [page |-> @.page,
                     state |-> IF after.retry THEN "running" ELSE "done",
                     attempt |-> IF after.retry THEN @.attempt + 1 ELSE @.attempt,
                     statuses |-> Append(@.statuses, StatusOf(response)),
                     commits |-> after.commits,
                     success |-> after.success]]
    /\ UNCHANGED fetchVars
    /\ UNCHANGED <<ref_source, request, probes>>
    /\ UNCHANGED <<classVars, buildVars, compareVars, cacheVars, branchVars>>

\* the calling thread takes the result of a future
MergeFuture ==
    /\ Submitted
    /\ \E i \in DOMAIN futures :
           /\ MergeReady(manager, futures, i)
           /\ LET one == MergeOne(manager, futures[i]) IN
              /\ all_commits' = all_commits \o one.all_commits
              /\ successful_pages' = successful_pages + one.successful_pages
              /\ failed_pages' = failed_pages + one.failed_pages
           /\ futures' = [futures EXCEPT ![i].state = "merged"]
    /\ UNCHANGED <<manager, total_commits, per_page, pc, left, right,
                   last_valid_page, total_pages>>
    /\ UNCHANGED <<ref_source, request, probes>>
    /\ UNCHANGED <<classVars, buildVars, compareVars, cacheVars, branchVars>>

\* every future is merged: the list is returned, and the optimized manager
\* sets it in its cache unless it is empty
ReturnCommits ==
    /\ Submitted
    /\ \A i \in DOMAIN futures : futures[i].state = "merged"
    /\ pc' = "done"
    /\ cache' = IF manager = "OptimizedGitLabManager" /\ all_commits # << >>
                THEN Put(cache, CacheKey("old"), all_commits) ELSE cache
    /\ UNCHANGED <<manager, total_commits, per_page, left, right,
                   last_valid_page, total_pages, all_commits,
                   successful_pages, failed_pages>>
    /\ UNCHANGED <<stats, call, returned, written, gets>>
    /\ UNCHANGED poolVars
    /\ UNCHANGED <<classVars, buildVars, compareVars, branchVars>>

NextPool ==
    \/ CallFetch
    \/ ReceiveProbe
    \/ Submit
    \/ StartWorker
    \/ WorkerReceive
    \/ MergeFuture
    \/ ReturnCommits

SpecPool == InitPool /\ [][NextPool]_vars

(***************************************************************************)
(* Properties of the fetch of one ref (checked under SpecPool).            *)
(***************************************************************************)
\* timeout or exception, and 5xx
TransientStatuses == {Raises, 500}

\* the statuses after which the page fetch of a future sent another request
RetriedStatuses(future) ==
    {future.statuses[k] :
        k \in 1 .. (IF future.state = "running" THEN Len(future.statuses)
                    ELSE Len(future.statuses) - 1)}

Finished(future) == future.state \in {"done", "merged"}

\* the records the source holds for a page
PageRecords(page) ==
    {(page - 1) * per_page + i :
        i \in 1 .. PageCount(ref_source.n, per_page, page)}

\* C26: a page fetch makes at most retry_attempts requests, returns the
\* records of the first request that succeeds, sends another request only
\* after a transient error (timeout, exception or 5xx), and when every
\* attempt failed it stops and the page is recorded as failed.
C26_RetryBound ==
    \A i \in DOMAIN futures :
        /\ Len(futures[i].statuses) <= retry_attempts
        /\ RetriedStatuses(futures[i]) \subseteq TransientStatuses
        /\ Finished(futures[i]) =>
               /\ 200 \notin RetriedStatuses(futures[i])
               /\ futures[i].success <=>
                      futures[i].statuses[Len(futures[i].statuses)] = 200
               /\ futures[i].success =>
                      {futures[i].commits[k] : k \in DOMAIN futures[i].commits}
                          = PageRecords(futures[i].page)
               /\ ~futures[i].success => futures[i].commits = << >>
        /\ (pc = "done" /\ ~futures[i].success) => failed_pages >= 1

Succeeded == {i \in DOMAIN futures : futures[i].success}

\* C27: whatever the interleaving of the workers and the pattern of page
\* failures, the list returned for the ref holds exactly the records of the
\* pages whose fetch succeeded, each record once, and no record of a page
\* whose fetch failed.
C27_MergeExact ==
    (pc = "done" /\ futures # << >>) =>
        /\ {all_commits[k] : k \in DOMAIN all_commits}
               = UNION {PageRecords(futures[i].page) : i \in Succeeded}
        /\ \A j, k \in DOMAIN all_commits : all_commits[j] = all_commits[k] => j = k
        /\ successful_pages = Cardinality(Succeeded)
        /\ failed_pages = Len(futures) - Cardinality(Succeeded)

\* C27's case: a list returned after the fetch of one page failed on every
\* attempt and the fetches of two other pages succeeded
C27_Witness ==
    /\ pc = "done"
    /\ Len(futures) - Cardinality(Succeeded) >= 1
    /\ Cardinality(Succeeded) >= 2
    /\ all_commits # << >>

\* C28: when the probe reports 0 pages or fails, the fetch returns an
\* empty list and no page-fetch task is ever dispatched to the pool.
C28_NoDispatchWithoutPages ==
    (pc \in {"dispatch", "done"} /\ total_pages \in {0, NoPageInfo}) =>
        /\ futures = << >>
        /\ all_commits = << >>
        /\ pc = "done" => cache = EmptyCache

\* C28's case: a fetch that returned after the probe of a ref holding
\* commits was answered 404
C28_Witness ==
    /\ pc = "done"
    /\ ref_source.whole /\ ref_source.status = 404 /\ ref_source.n > 0
    /\ total_pages \in {0, NoPageInfo}
    /\ all_commits = << >>

\* C29: given a page count k >= 1, exactly one task is dispatched for each
\* page 1..k, and at most max_workers page fetches are in flight.
C29_OnePerPageBounded ==
    /\ \A i \in DOMAIN futures : futures[i].page = i
    /\ Len(futures) <= Max(total_pages, 0)
    /\ (pc = "done" /\ total_pages >= 1) => Len(futures) = total_pages
    /\ Cardinality(Running(futures)) <= MaxWorkers

\* C29's case: more pages than workers, every worker busy and a task
\* queued
C29_Witness ==
    /\ Len(futures) = total_pages
    /\ total_pages > MaxWorkers
    /\ Cardinality(Running(futures)) = MaxWorkers
    /\ \E i \in DOMAIN futures : futures[i].state = "queued"

\* C30: the probe is sequential: at most one probe request is in flight,
\* the page of a request of the search is the middle of the range the
\* previous outcomes left, and no page fetch is submitted before the probe
\* has returned its page count.
C30_ProbeThenFetch ==
    /\ Cardinality(request) <= 1
    /\ pc = "search" => \A req \in request : req.page = MidPage(left, right)
    /\ pc \in {"call", "first", "search"} => futures = << >>
    /\ futures # << >> => (request = {} /\ total_pages >= 1)

\* C30's case: a request of the search in flight after an earlier probe
\* found data
C30_Witness ==
    /\ pc = "search"
    /\ request # {}
    /\ last_valid_page > 1
    /\ right < SearchUpper(manager)

(***************************************************************************)
(* The probe alone, against a source whose answers may fail at any         *)
(* request: GitLabManager._detect_total_pages and                          *)
(* OptimizedGitLabManager._get_commits_page_info with _find_last_page.     *)
(* Every request is answered by what the source holds for the page or by   *)
(* a failure (401, 404, 500, no response), chosen at each request.         *)
(***************************************************************************)
\* the commits a probed source holds: none, a few, or more pages than the
\* search range has
ProbeCounts(m, p) ==
    (0 .. MaxRefCommits) \cup {(SearchUpper(m) + MaxOverflow) * p}

\* what requests.get of a page may give: the page, or a failure
ProbeResponses(src, p, page) ==
    {ListCommits(src, p, page, 0)}
        \cup {[raised |-> st = Raises, status_code |-> st, json |-> << >>] :
                 st \in FaultStatuses}

\* the requests of one probed page: what the last of them left, given the
\* responses the attempts would get
RECURSIVE PageAfter(_, _, _)
PageAfter(m, responses, attempt) ==
    LET after == ProbeAfterResponse(m, responses[attempt + 1], attempt) IN
    IF after.retry THEN PageAfter(m, responses, attempt + 1) ELSE after

\* the responses the attempts of one probed page may get: up to
\* retry_attempts requests in _fetch_single_page, one in the optimized probe
AttemptResponses(m, src, p, page) ==
    [1 .. (IF m = "GitLabManager" THEN retry_attempts ELSE 1) ->
        ProbeResponses(src, p, page)]

\* what the probe saw of a page
Probe(page, after) ==
    [page |-> page,
     outcome |-> IF after.commits # << >> THEN "data"
                 ELSE IF after.success THEN "empty" ELSE "failed"]

InitProbe ==
    /\ manager \in Managers
    /\ per_page \in 1 .. MaxPerPage
    /\ ref_source \in {HealthySource(n) : n \in ProbeCounts(manager, per_page)}
    /\ request = {}
    /\ futures = << >>
    /\ probes = << >>
    /\ pc = "first"
    /\ total_commits = 0
    /\ left = 0
    /\ right = 0
    /\ last_valid_page = 0
    /\ total_pages = 0
    /\ all_commits = << >>
    /\ successful_pages = 0
    /\ failed_pages = 0
    /\ ClassIdle
    /\ BuildIdle
    /\ CompareIdle
    /\ CacheIdle
    /\ BranchIdle

\* page 1 is requested: no commits, one page, or the search starts; the
\* optimized manager has no page info when the request fails
ProbeFirstPage ==
    /\ pc = "first"
    /\ \E responses \in AttemptResponses(manager, ref_source, per_page, 1) :
         LET after == PageAfter(manager, responses, 0)
             verdict == FirstPageVerdict(after.commits, per_page) IN
         /\ probes' = Append(probes, Probe(1, after))
         /\ IF manager = "OptimizedGitLabManager" /\ ~after.success
            THEN /\ pc' = "returned"
                 /\ total_pages' = NoPageInfo
                 /\ UNCHANGED <<left, right, last_valid_page>>
            ELSE IF verdict = "search"
            THEN /\ pc' = "search"
                 /\ left' = 1
                 /\ right' = SearchUpper(manager)
                 /\ last_valid_page' = 1
                 /\ UNCHANGED total_pages
            ELSE /\ pc' = "returned"
                 /\ total_pages' = IF verdict = "zero" THEN 0 ELSE 1
                 /\ UNCHANGED <<left, right, last_valid_page>>
    /\ UNCHANGED <<manager, total_commits, per_page, all_commits,
                   successful_pages, failed_pages>>
    /\ UNCHANGED <<ref_source, request, futures>>
    /\ UNCHANGED <<classVars, buildVars, compareVars, cacheVars, branchVars>>

\* one iteration of "while left <= right": the middle page is requested
ProbeCandidate ==
    /\ pc = "search"
    /\ left <= right
    /\ LET mid == MidPage(left, right) IN
       \E responses \in AttemptResponses(manager, ref_source, per_page, mid) :
         LET after == PageAfter(manager, responses, 0)
             step == SearchStep(left, right, last_valid_page, mid,
                                after.commits, per_page) IN
         /\ probes' = Append(probes, Probe(mid, after))
         /\ left' = step.left
         /\ right' = step.right
         /\ last_valid_page' = step.last_valid_page
    /\ UNCHANGED <<manager, total_commits, per_page, pc, total_pages,
                   all_commits, successful_pages, failed_pages>>
    /\ UNCHANGED <<ref_source, request, futures>>
    /\ UNCHANGED <<classVars, buildVars, compareVars, cacheVars, branchVars>>

\* "return last_valid_page"
ProbeReturn ==
    /\ pc = "search"
    /\ left > right
    /\ pc' = "returned"
    /\ total_pages' = last_valid_page
    /\ UNCHANGED <<manager, total_commits, per_page, left, right,
                   last_valid_page, all_commits, successful_pages,
                   failed_pages>>
    /\ UNCHANGED poolVars
    /\ UNCHANGED <<classVars, buildVars, compareVars, cacheVars, branchVars>>

NextProbe ==
    \/ ProbeFirstPage
    \/ ProbeCandidate
    \/ ProbeReturn

SpecProbe == InitProbe /\ [][NextProbe]_vars

\* the probe runs on the calling thread and every request has a timeout,
\* so a step that can be taken is taken
SpecProbeFair == SpecProbe /\ WF_vars(NextProbe)

(***************************************************************************)
(* Properties of the probe (checked under SpecProbeFair and SpecProbe).    *)
(***************************************************************************)
RECURSIVE FloorLog2(_)
FloorLog2(n) == IF n < 2 THEN 0 ELSE 1 + FloorLog2(n \div 2)

\* the candidate pages requested after page 1
CandidateProbes == {i \in DOMAIN probes : i > 1}

\* C31: the search of the probe terminates whatever the responses, failed
\* ones included: every probe of a candidate strictly shrinks the range
\* [left, right], at most floor(log2(U)) + 1 candidates are requested after
\* page 1 for the upper bound U of the manager, and the probe returns.
C31_ProbeTerminates ==
    /\ [](Cardinality(CandidateProbes) <= FloorLog2(SearchUpper(manager)) + 1)
    /\ [][(pc = "search" /\ probes' # probes) =>
             right' - left' < right - left]_vars
    /\ <>(pc = "returned")

\* C31's case: a returned search that requested as many candidates as the
\* bound allows, some of which failed and some of which had data
C31_Witness ==
    /\ pc = "returned"
    /\ Cardinality(CandidateProbes) = FloorLog2(SearchUpper(manager)) + 1
    /\ \E i \in CandidateProbes : probes[i].outcome = "failed"
    /\ \E i \in CandidateProbes : probes[i].outcome = "data"

\* the pages the probe saw commits on
ObservedNonEmpty == {probes[i].page : i \in {j \in DOMAIN probes : probes[j].outcome = "data"}}

\* the last page of the probed source that holds commits
TrueLastPage == Ceil(ref_source.n, per_page)

\* C37: the probe never overestimates: whatever requests fail, a page count
\* p >= 1 it returns is a page it saw commits on, p is at most the last
\* non-empty page of the source, and p is at most what the probe returns
\* when no request fails.
C37_NeverOverestimates ==
    (pc = "returned" /\ total_pages >= 1) =>
        /\ total_pages \in ObservedNonEmpty
        /\ total_pages <= TrueLastPage
        /\ total_pages <=
               DetectTotalPages(manager, ref_source, per_page).total_pages

\* C37's case: a failed request during the search made the probe return
\* fewer pages than the source holds within the search range
C37_Witness ==
    /\ pc = "returned"
    /\ \E i \in CandidateProbes : probes[i].outcome = "failed"
    /\ total_pages > 1
    /\ total_pages <
           DetectTotalPages(manager, ref_source, per_page).total_pages

(***************************************************************************)
(* One comparison of OptimizedTaskLossDetector: the two tasks of its pool  *)
(* call get_all_branch_commits_concurrent of old_version and new_version,  *)
(* which may name the same ref. Between cache.get, the requests to the     *)
(* source and cache.set the other task may run: the manager takes no lock. *)
(***************************************************************************)
RefNames == {"v1", "v2"}

\* what a ref may hold and answer: commits, none, or a failure at every
\* request
RefSources ==
    {HealthySource(n) : n \in 0 .. MaxRefCommits}
        \cup [n : {MaxRefCommits}, status : FaultStatuses, whole : {TRUE},
              pages : {{}}, fails : {retry_attempts}, null_message : {FALSE}]

StorableAlways(commit_list) == TRUE

\* "if all_commits:" before cache.set
Storable(commit_list) == commit_list # << >>

\* a task submitted to the pool, before it runs
Submitted_(ref_name) ==
    [pc |-> "call", ref |-> ref_name, cached_at_call |-> FALSE,
     contacted |-> FALSE, fetched |-> << >>, result |-> << >>]

InitRefs ==
    /\ manager = "OptimizedGitLabManager"
    /\ per_page \in 1 .. MaxPerPage
    /\ \E names \in [Refs -> RefNames], held \in [RefNames -> RefSources] :
           /\ thread = [r \in Refs |-> Submitted_(names[r])]
           /\ source = [r \in Refs |-> held[names[r]]]
    /\ fetched = [r \in Refs |-> NotFetched]
    /\ operation = "none"
    /\ payload = NoPayload
    /\ cache = EmptyCache
    /\ stats = ZeroStats
    /\ call = [op |-> "none"]
    /\ returned = None
    /\ written = EmptyCache
    /\ gets = 0
    /\ comparison = 1
    /\ PoolIdle
    /\ total_commits = 0
    /\ pc = "idle"
    /\ left = 0
    /\ right = 0
    /\ last_valid_page = 0
    /\ total_pages = 0
    /\ all_commits = << >>
    /\ successful_pages = 0
    /\ failed_pages = 0
    /\ ClassIdle
    /\ BuildIdle

\* "cached_commits = self.cache.get(cache_key)" and the return of the
\* cached list when there is one
LookupRef ==
    /\ \E r \in Refs :
         LET got == CacheGet(cache, stats, CacheKey(thread[r].ref))
             \* "cached_commits is not None": the values set are lists
             is_not_none == CacheKey(thread[r].ref) \in DOMAIN cache IN
         /\ thread[r].pc = "call"
         /\ stats' = got.stats
         /\ thread' = [thread EXCEPT
                ![r].cached_at_call = is_not_none,
                ![r].result = IF is_not_none THEN got.value ELSE << >>,
                ![r].pc = IF is_not_none THEN "done" ELSE "fetch"]
    /\ gets' = gets + 1
    /\ UNCHANGED <<cache, call, returned, written, comparison>>
    /\ UNCHANGED <<fetchVars, classVars, buildVars, compareVars>>
    /\ UNCHANGED poolVars

\* the page information and the pages are requested from the source
RequestRef ==
    /\ \E r \in Refs :
         /\ thread[r].pc = "fetch"
         /\ \E order \in CompletionOrders(BranchTotalPages(source[r], per_page)) :
              thread' = [thread EXCEPT
                  ![r].contacted = TRUE,
                  ![r].fetched = FetchBranchCommits(source[r], per_page, order),
                  ![r].pc = "store"]
    /\ UNCHANGED <<cacheVars, comparison>>
    /\ UNCHANGED <<fetchVars, classVars, buildVars, compareVars>>
    /\ UNCHANGED poolVars

\* "if all_commits: self.cache.set(cache_key, all_commits)" and the return
StoreRef ==
    /\ \E r \in Refs :
         /\ thread[r].pc = "store"
         /\ cache' = IF Storable(thread[r].fetched)
                     THEN Put(cache, CacheKey(thread[r].ref), thread[r].fetched)
                     ELSE cache
         /\ written' = IF Storable(thread[r].fetched)
                       THEN Put(written, CacheKey(thread[r].ref), comparison)
                       ELSE written
         /\ thread' = [thread EXCEPT ![r].result = thread[r].fetched,
                                      ![r].pc = "done"]
    /\ UNCHANGED <<stats, call, returned, gets, comparison>>
    /\ UNCHANGED <<fetchVars, classVars, buildVars, compareVars>>
    /\ UNCHANGED poolVars

NextRefs ==
    \/ LookupRef
    \/ RequestRef
    \/ StoreRef

SpecRefs == InitRefs /\ [][NextRefs]_vars

(***************************************************************************)
(* Properties of the cached fetch of one comparison (checked under         *)
(* SpecRefs).                                                              *)
(***************************************************************************)
\* the tasks that requested the commits of a ref from the source
Retrievals(ref_name) ==
    {r \in Refs : thread[r].ref = ref_name /\ thread[r].contacted}

\* C32: within one comparison the cache deduplicates the fetches of a ref:
\* the commit list of a ref is requested from the source at most once,
\* whether the fetches follow each other or run concurrently.
C32_FetchedOncePerRun ==
    \A ref_name \in RefNames : Cardinality(Retrievals(ref_name)) <= 1

\* C39: an empty commit list is never stored: every cached entry is a
\* non-empty list; a call that finds its ref cached returns the cached list
\* without a request to the source, and a call that does not find it
\* requests it from the source, also after an earlier call for the ref
\* returned no commits.
C39_EmptyNeverCached ==
    /\ \A key \in DOMAIN cache : cache[key] # << >>
    /\ \A r \in Refs :
           thread[r].pc = "done" =>
               IF thread[r].cached_at_call
               THEN /\ ~thread[r].contacted
                    /\ thread[r].result = cache[CacheKey(thread[r].ref)]
                    /\ thread[r].result # << >>
               ELSE thread[r].contacted

\* C39's case: the two calls name the same ref and follow each other; one
\* returned no commits and left nothing cached, so the other requested the
\* ref again
C39_Witness ==
    /\ \A r \in Refs : thread[r].pc = "done"
    /\ thread["old"].ref = thread["new"].ref
    /\ \A r \in Refs : thread[r].contacted /\ thread[r].result = << >>
    /\ cache = EmptyCache
    /\ stats.misses = 2

(***************************************************************************)
(* Properties of the two fetches of one comparison (checked under          *)
(* SpecCompare).                                                           *)
(***************************************************************************)
\* the list get_all_tag_commits_concurrent returns for a ref
ReturnedFor(r) == GetAllTagCommitsConcurrent(source[r], per_page).all_commits

\* C33: the two fetches of a comparison do not interfere: the
\* classification starts only after both have completed, and the list it
\* uses as old is the list returned for old_ref and the list it uses as new
\* the list returned for new_ref, whichever fetch finished first.
C33_NoInterference ==
    /\ result # NoResult => \A r \in Refs : fetched[r] # NotFetched
    /\ \A r \in Refs :
           fetched[r] # NotFetched => fetched[r].all_commits = ReturnedFor(r)
    /\ result.analysis = "success" =>
           /\ result.old_commits_count = Len(ReturnedFor("old"))
           /\ result.new_commits_count = Len(ReturnedFor("new"))
           /\ old_commit_task_map =
                  ExtractCommitMessagesWithTasks(SimplifiedCommits(ReturnedFor("old")))
           /\ new_commit_task_map =
                  ExtractCommitMessagesWithTasks(SimplifiedCommits(ReturnedFor("new")))
           /\ result = AnalyzeFetched(ReturnedFor("old"), ReturnedFor("new"))

\* C33's case: a classification of two refs that returned different lists
C33_Witness ==
    /\ result.analysis = "success"
    /\ Len(ReturnedFor("old")) > Len(ReturnedFor("new"))
    /\ Len(ReturnedFor("new")) > 0
    /\ result.missing_tasks # {}

(***************************************************************************)
(* Two comparisons in a row on one TaskLossDetector and its GitLabManager, *)
(* against sources that do not change and do not fail. The second call of  *)
(* _analyze_version_tasks starts from its own locals: new futures, no      *)
(* result, no index.                                                       *)
(***************************************************************************)
StaleFutures == fetched

\* "future_old = executor.submit(...)", "future_new = executor.submit(...)"
\* of a new call
FreshFutures == [r \in Refs |-> NotFetched]

InitRepeat ==
    /\ manager = "GitLabManager"
    /\ source \in [Refs -> {HealthySource(n) : n \in 0 .. MaxRefCommits}]
    /\ fetched = [r \in Refs |-> NotFetched]
    /\ operation = "none"
    /\ payload = NoPayload
    /\ per_page \in 1 .. MaxPerPage
    /\ thread = [r \in Refs |-> [pc |-> "idle"]]
    /\ comparison = 1
    /\ total_commits = 0
    /\ pc = "idle"
    /\ left = 0
    /\ right = 0
    /\ last_valid_page = 0
    /\ total_pages = 0
    /\ all_commits = << >>
    /\ successful_pages = 0
    /\ failed_pages = 0
    /\ ClassIdle
    /\ BuildIdle
    /\ CacheIdle
    /\ PoolIdle

\* the exposed operation is called again with the same two refs; what the
\* first call returned stays with the caller
CompareAgain ==
    /\ payload # NoPayload
    /\ comparison < MaxComparisons
    /\ comparison' = comparison + 1
    /\ fetched' = FreshFutures
    /\ result' = NoResult
    /\ old_commit_task_map' = EmptyIndex
    /\ new_commit_task_map' = EmptyIndex
    /\ detector' = "none"
    /\ UNCHANGED <<source, operation, payload, thread>>
    /\ UNCHANGED <<fetchVars, buildVars, cacheVars>>
    /\ UNCHANGED poolVars

NextRepeat ==
    \/ FetchRefCommits
    \/ AnalyzeBothVersions
    \/ DetectMissingTasks
    \/ AnalyzeNewFeatures
    \/ CompareAgain

SpecRepeat == InitRepeat /\ [][NextRepeat]_vars

\* what the operation of the first comparison returns for the result of
\* the comparison in progress
PayloadOfResult ==
    IF operation = "detect_missing_tasks" THEN MissingTasksPayload(result)
    ELSE NewFeaturesPayload(result)

StatusesWithFindings ==
    {res.analysis :
        res \in {found \in {AnalyzeVersionTasks(pair[1], pair[2]) :
                                pair \in Indexes \X Indexes} :
                    found.missing_tasks # {} \/ DOMAIN found.new_features # {}}}

\* C35: when both refs have commits and neither list names a task id, the
\* result is empty throughout and its status is a "no work items found"
\* status: not a failure status, and not the status of a success with
\* findings.
C35_NoWorkItemsStatus ==
    (Classified /\ OldTaskSet = {} /\ NewTaskSet = {}) =>
        /\ result.old_tasks = {} /\ result.new_tasks = {}
        /\ result.missing_tasks = {} /\ result.common_tasks = {}
        /\ DOMAIN result.new_features = {}
        /\ result.detailed_analysis.completely_missing_tasks = {}
        /\ DOMAIN result.detailed_analysis.partially_missing_tasks = {}
        /\ result.detailed_analysis.completely_new_tasks = {}
        /\ DOMAIN result.detailed_analysis.partially_new_tasks = {}
        /\ result.analysis \notin FailureStatuses
        /\ result.analysis \notin StatusesWithFindings

(***************************************************************************)
(* GitLabManager.get_all_tag_commits: the pages are requested one after    *)
(* the other until one comes back empty or short.                          *)
(***************************************************************************)
\* the sizes of the refs fetched page by page: small ones, and those around
\* the last page the probe of the concurrent fetch can find
IncrementalCounts(p) ==
    (0 .. MaxRefCommits + 1)
        \cup {detect_upper * p - 1, detect_upper * p, detect_upper * p + 1}

\* what the loop saw of a page
PageSeen(page, page_commits) == [page |-> page, count |-> Len(page_commits)]

StopsAtFirstPage(page_commits, p) == TRUE

\* "if not page_commits: break" and "if len(page_commits) < per_page: break"
IncrementalStops(page_commits, p) ==
    page_commits = << >> \/ Len(page_commits) < p

InitIncremental ==
    /\ manager = "GitLabManager"
    /\ per_page \in 1 .. MaxPerPage
    /\ ref_source \in {HealthySource(n) : n \in IncrementalCounts(per_page)}
    /\ request = {}
    /\ futures = << >>
    /\ probes = << >>
    /\ pc = "page"
    /\ total_commits = 0
    /\ left = 0
    /\ right = 0
    /\ last_valid_page = 0
    /\ total_pages = 0
    /\ all_commits = << >>
    /\ successful_pages = 0
    /\ failed_pages = 0
    /\ ClassIdle
    /\ BuildIdle
    /\ CompareIdle
    /\ CacheIdle
    /\ BranchIdle

\* one iteration of "while True"
FetchNextPage ==
    /\ pc = "page"
    /\ LET page == Len(probes) + 1
           page_commits == FetchSinglePage(ref_source, per_page, page) IN
       /\ probes' = Append(probes, PageSeen(page, page_commits))
       /\ all_commits' = all_commits \o page_commits
       /\ IF IncrementalStops(page_commits, per_page)
          THEN /\ pc' = "stopped"
               /\ total_pages' = IF page_commits = << >> THEN page - 1 ELSE page
          ELSE IF page + 1 > incremental_upper
          THEN /\ pc' = "stopped"
               /\ total_pages' = page
          ELSE UNCHANGED <<pc, total_pages>>
    /\ UNCHANGED <<manager, total_commits, per_page, left, right,
                   last_valid_page, successful_pages, failed_pages>>
    /\ UNCHANGED <<ref_source, request, futures>>
    /\ UNCHANGED <<classVars, buildVars, compareVars, cacheVars, branchVars>>

\* "return all_commits"
ReturnAllCommits ==
    /\ pc = "stopped"
    /\ pc' = "returned"
    /\ UNCHANGED <<manager, total_commits, per_page, left, right,
                   last_valid_page, total_pages, all_commits,
                   successful_pages, failed_pages>>
    /\ UNCHANGED poolVars
    /\ UNCHANGED <<classVars, buildVars, compareVars, cacheVars, branchVars>>

NextIncremental ==
    \/ FetchNextPage
    \/ ReturnAllCommits

SpecIncremental == InitIncremental /\ [][NextIncremental]_vars

\* C36: on a source that does not fail, and for N commits within the range
\* of the probe (N <= 500 * P), the page-by-page fetch returns the same set
\* of commits as the probe-then-parallel fetch, and it stops at the first
\* page that is empty or shorter than P: every page before the last one it
\* requested was full.
C36_IncrementalEquivalent ==
    (pc = "returned" /\ ref_source.n <= detect_upper * per_page) =>
        /\ Elements(all_commits) =
               Elements(GetAllTagCommitsConcurrent(ref_source, per_page).all_commits)
        /\ Elements(all_commits) = 1 .. ref_source.n
        /\ probes[Len(probes)].count < per_page
        /\ \A i \in 1 .. Len(probes) - 1 : probes[i].count = per_page

\* C36's case: a ref with as many full pages as the probe can find,
\* fetched page by page up to the empty page after them
C36_Witness ==
    /\ pc = "returned"
    /\ ref_source.n = detect_upper * per_page
    /\ Len(probes) = detect_upper + 1
    /\ Len(all_commits) = ref_source.n

(***************************************************************************)
(* Where the classified task ids come from (checked under SpecClassify).   *)
(***************************************************************************)
\* C38: every partially missing task id is in TaskSet(old) and in
\* TaskSet(new), hence in common_tasks; every completely missing task id is
\* in TaskSet(old) only; every partially new task id is common and every
\* completely new task id is in TaskSet(new) only. A task may be partially
\* missing and partially new in the same result.
C38_Membership ==
    Classified =>
        /\ DOMAIN PartiallyMissing \subseteq OldTaskSet \cap NewTaskSet
        /\ DOMAIN PartiallyMissing \subseteq result.common_tasks
        /\ CompletelyMissing \subseteq OldTaskSet \ NewTaskSet
        /\ DOMAIN PartiallyNew \subseteq OldTaskSet \cap NewTaskSet
        /\ DOMAIN PartiallyNew \subseteq result.common_tasks
        /\ CompletelyNew \subseteq NewTaskSet \ OldTaskSet

\* C38's case: one task partially missing and partially new, beside a
\* completely missing task
C38_Witness ==
    /\ Classified
    /\ DOMAIN PartiallyMissing \cap DOMAIN PartiallyNew # {}
    /\ CompletelyMissing # {}
    /\ CompletelyNew = {}

====
